---- MODULE Spec2Model ----
(***************************************************************************)
(* neo4go: the migration orchestrator (migrator.go) running against the    *)
(* Neo4j applied-record store (neo4jStorage, errors.go).                   *)
(*                                                                         *)
(* One step of the model is one storage call or one script execution (a    *)
(* script runs in one database transaction, a storage call in one          *)
(* auto-commit query); the local computation between two such calls is     *)
(* folded into the step that precedes it.  Independent orchestrators       *)
(* interleave at that granularity.  Every storage call and every script    *)
(* can fail; the outcome is chosen nondeterministically.                   *)
(***************************************************************************)
EXTENDS Integers, Sequences, FiniteSets, TLC

\* ------------------------------------------------------------------ bounds
MaxVersion == 2    \* versions are drawn from 0..MaxVersion
MaxMigs == 3       \* at most this many declared migration files
MaxOps == 2        \* at most this many operations are started in one behaviour
NumProcs == 2      \* independent orchestrators of the concurrent specification
MaxConcMigs == 2   \* declared migration files of the concurrent specification
MaxConcFaults == 1 \* storage calls and scripts that fail of themselves, concurrent specification
MaxCycleOps == 3   \* operations of the apply / roll back / apply cycle
MaxEntries == 2    \* entries of the migrations directory
MaxDigits == 3     \* digits of the numeric prefix of a file name
MaxLines == 5      \* lines of a migration file
MaxChars == 5      \* characters of a script
IntBits == 5       \* width of int, scaled down: Atoi fails beyond 2^(IntBits-1) - 1

Versions == 0..MaxVersion
Procs == 1..NumProcs
Solo == {1}

VARIABLES
    migrations,   \* migrator.migrations: the declared sequence (parser output)
    store,        \* the :SchemaMigration nodes of the database
    constraint,   \* whether the uniqueness constraint on version exists
    clock,        \* the database clock read by datetime()
    effects,      \* versions whose forward effects are present in the database
    opsLeft,      \* operations that may still be started
    faultsLeft,   \* storage calls and scripts that may still fail of themselves
    pc,           \* per orchestrator: where its running operation stands
    op,           \* per orchestrator: the operation it runs (or ran last)
    target,       \* per orchestrator: targetVersion of UpTo
    applied,      \* per orchestrator: the slice GetAppliedMigrations returned
    cur,          \* per orchestrator: index in migrations of the migration in hand
    result,       \* per orchestrator: what the operation returned
    log,          \* per orchestrator: storage calls, script runs and warnings of the operation
    prev,         \* per orchestrator: the operation before the current one
    store0,       \* per orchestrator: the store when the operation started
    value,        \* per orchestrator: what the operation returned beside a nil error
    dir,          \* parser: the entries of the migrations directory, in listing order
    parsed,       \* parser: what parseMigrations returned
    tx,           \* executeMigration: the script, the transaction and what it left
    ctx,          \* the context of the operation: canceled or not, and the state then
    cfg,          \* constructor: the Config handed to New or NewWithDriver
    made          \* constructor: where it stands, its error, the I/O it did

vars == <<migrations, store, constraint, clock, effects, opsLeft, faultsLeft, pc, op, target,
          applied, cur, result, log, prev, store0, value, dir, parsed, tx, ctx, cfg, made>>

\* ------------------------------------------------------------- data model
\* A declared migration.  Name and Checksum stand for the file's name and the
\* digest of its content: the i-th file has name i and content i.
Migration(v, i) == [Version |-> v, Name |-> i, Checksum |-> i]

\* The record RecordMigration creates: version, name and checksum of the
\* migration, applied_at = datetime().
MigrationRecordBlank(m, at) ==
    [Version |-> m.Version, Name |-> 0, AppliedAt |-> at, Checksum |-> 0]
MigrationRecord(m, at) ==
    [Version |-> m.Version, Name |-> m.Name, AppliedAt |-> at, Checksum |-> m.Checksum]

\* What parseMigrations can return: sorted ascending by version with
\* sort.Slice; equal versions are neither merged nor rejected, and a prefix
\* of zeros ("000_x.cypher") parses to version 0.
SortedVersionSeqs(n) ==
    {s \in UNION {[1..k -> Versions] : k \in 1..n} :
        \A i \in DOMAIN s, j \in DOMAIN s : i < j => s[i] <= s[j]}

DeclaredFrom(s) == [i \in DOMAIN s |-> Migration(s[i], i)]

\* A record left by an earlier run (of an earlier revision of the file), the
\* versions applied one after the other before the clock of this run starts.
OldRecord(v) == [Version |-> v, Name |-> 0, AppliedAt |-> v, Checksum |-> 0]

\* ------------------------------------------------------------- constructor
\* Config: "" is a string left empty, and a nil MigrationsFS.
Config(uri, user, pass, d, f) ==
    [URI |-> uri, Username |-> user, Password |-> pass, MigrationsDir |-> d, MigrationsFS |-> f]
NoConfig == Config("", "", "", "", "")
Calling(entry) == [pc |-> entry, err |-> "none", io |-> <<>>, source |-> "none"]

\* validateConfig, lines 78-96.
validateConfig(c) ==
    IF c.URI = "" THEN "ErrInvalidConfig"
    ELSE IF c.Username = "" THEN "ErrInvalidConfig"
    ELSE IF c.Password = "" THEN "ErrInvalidConfig"
    ELSE IF c.MigrationsDir = "" /\ c.MigrationsFS = "" THEN "ErrInvalidConfig"
    ELSE "nil"

\* -------------------------------------------------------------------- parser
\* The lines of a migration file: the two markers, a blank line, a statement.
UpMarker == "-- +neo4go Up"
DownMarker == "-- +neo4go Down"
Blank == ""
Statement == "RETURN 1;"
Lines == {UpMarker, DownMarker, Blank, Statement}
Contents(max) == UNION {[1..n -> Lines] : n \in 0..max}

\* A directory entry.  Its name is <digits>_<base>.<ext>; it matches
\* ^(\d+)_(.+)\.cypher$ when it has digits, a base and the extension cypher.
Entry(d, ds, b, e, c) == [isDir |-> d, digits |-> ds, base |-> b, ext |-> e, content |-> c]
Matches(e) == Len(e.digits) >= 1 /\ e.base # "" /\ e.ext = "cypher"

\* strconv.Atoi of the digits: the decimal value, an error beyond the int range.
RECURSIVE DecimalValue(_)
DecimalValue(ds) ==
    IF ds = <<>> THEN 0
    ELSE 10 * DecimalValue(SubSeq(ds, 1, Len(ds) - 1)) + ds[Len(ds)]
MaxInt == 2 ^ (IntBits - 1) - 1
AtoiFails(ds) == DecimalValue(ds) > MaxInt

\* strings.TrimSpace of a section: blank lines at either end go.
RECURSIVE TrimLeft(_)
TrimLeft(ls) == IF ls # <<>> /\ Head(ls) = Blank THEN TrimLeft(Tail(ls)) ELSE ls
RECURSIVE TrimRight(_)
TrimRight(ls) ==
    IF ls # <<>> /\ ls[Len(ls)] = Blank THEN TrimRight(SubSeq(ls, 1, Len(ls) - 1)) ELSE ls
TrimSpace(ls) == TrimRight(TrimLeft(ls))

\* Lines that hold a marker token and more: text after the token, white
\* space before it, the token in lower case.
UpMarkerAndText == "-- +neo4go Up: create"
DownMarkerAndText == "-- +neo4go Downgrade"
IndentedUpMarker == "  -- +neo4go Up"
LowerDownMarker == "-- +neo4go down"
MarkedLines ==
    {UpMarker, DownMarker, Statement, UpMarkerAndText, DownMarkerAndText, IndentedUpMarker,
     LowerDownMarker}
MarkedContents(max) == UNION {[1..n -> MarkedLines] : n \in 0..max}

\* strings.HasPrefix(line, prefix), on the lines above.
HasPrefix(line, prefix) ==
    \/ line = prefix
    \/ line = UpMarkerAndText /\ prefix = UpMarker
    \/ line = DownMarkerAndText /\ prefix = DownMarker

\* The scan with the lines before the first marker taken for forward text.
RECURSIVE ScanLinesFromTop(_, _, _, _)
ScanLinesFromTop(ls, section, up, down) ==
    IF ls = <<>> THEN [up |-> up, down |-> down]
    ELSE IF HasPrefix(Head(ls), UpMarker) THEN ScanLinesFromTop(Tail(ls), "up", up, down)
    ELSE IF HasPrefix(Head(ls), DownMarker) THEN ScanLinesFromTop(Tail(ls), "down", up, down)
    ELSE IF section = "down" THEN ScanLinesFromTop(Tail(ls), section, up, Append(down, Head(ls)))
    ELSE ScanLinesFromTop(Tail(ls), section, Append(up, Head(ls)), down)

\* splitUpDown lines 108-129: a marker line switches the section, any other
\* line goes to the section in hand, lines before the first marker are dropped.
RECURSIVE ScanLines(_, _, _, _)
ScanLines(ls, section, up, down) ==
    IF ls = <<>> THEN [up |-> up, down |-> down]
    ELSE IF HasPrefix(Head(ls), UpMarker) THEN ScanLines(Tail(ls), "up", up, down)
    ELSE IF HasPrefix(Head(ls), DownMarker) THEN ScanLines(Tail(ls), "down", up, down)
    ELSE IF section = "up" THEN ScanLines(Tail(ls), section, Append(up, Head(ls)), down)
    ELSE IF section = "down" THEN ScanLines(Tail(ls), section, up, Append(down, Head(ls)))
    ELSE ScanLines(Tail(ls), section, up, down)

\* splitUpDown lines 135-146.
splitUpDownUnchecked(content) ==
    LET sec == ScanLines(content, "", <<>>, <<>>)
    IN  [err |-> "nil", up |-> TrimSpace(sec.up), down |-> TrimSpace(sec.down)]
splitUpDown(content) ==
    LET sec == ScanLines(content, "", <<>>, <<>>)
        upStr == TrimSpace(sec.up)
        downStr == TrimSpace(sec.down)
    IN  IF upStr = <<>> THEN [err |-> "ErrNoUpStatement", up |-> <<>>, down |-> <<>>]
        ELSE IF downStr = <<>> THEN [err |-> "ErrNoDownStatement", up |-> <<>>, down |-> <<>>]
        ELSE [err |-> "nil", up |-> upStr, down |-> downStr]

\* calculateChecksum: the SHA-256 digest of the bytes, taken to be free of
\* collisions: the digest of b is b under the digest's name.
Sha256(bytes) == <<"sha256", bytes>>
calculateChecksumOfSections(content) ==
    Sha256(<<splitUpDown(content).up, splitUpDown(content).down>>)
calculateChecksum(content) == Sha256(content)

\* parseMigrationFile lines 82-100.
parseMigrationFile(e) ==
    LET sp == splitUpDown(e.content)
    IN  IF sp.err # "nil" THEN [err |-> sp.err]
        ELSE [err |-> "nil",
              m |-> [Version |-> DecimalValue(e.digits), Name |-> e.base,
                     UpSQL |-> sp.up, DownSQL |-> sp.down,
                     Checksum |-> calculateChecksum(e.content)]]

\* parseMigrations line 39-51: the entry is passed over without being opened.
SkippedAlsoZero(e) == e.isDir \/ ~Matches(e) \/ AtoiFails(e.digits) \/ DecimalValue(e.digits) = 0
Skipped(e) == e.isDir \/ ~Matches(e) \/ AtoiFails(e.digits)

\* parseMigrations lines 38-62, from entry k on: the files opened so far, the
\* migrations collected so far; the first file in error ends the loop.
RECURSIVE Collect(_, _, _, _)
Collect(es, k, read, ms) ==
    IF k > Len(es) THEN [err |-> "nil", read |-> read, migrations |-> ms]
    ELSE IF Skipped(es[k]) THEN Collect(es, k + 1, read, ms)
    ELSE LET f == parseMigrationFile(es[k])
         IN  IF f.err # "nil"
             THEN [err |-> f.err, read |-> Append(read, k), migrations |-> <<>>]
             ELSE Collect(es, k + 1, Append(read, k), Append(ms, f.m))

\* sort.Slice by Version: the result is a rearrangement of ms with versions
\* ascending; sort.Slice is not stable, so equal versions come in any order.
SortedByVersion(ms) ==
    {s \in [1..Len(ms) -> {ms[i] : i \in DOMAIN ms}] :
        /\ \A m \in {ms[i] : i \in DOMAIN ms} :
              Cardinality({i \in DOMAIN s : s[i] = m}) =
              Cardinality({i \in DOMAIN ms : ms[i] = m})
        /\ \A i \in DOMAIN s, j \in DOMAIN s : i < j => s[i].Version <= s[j].Version}

NotParsed == [state |-> "none", err |-> "nil", read |-> <<>>, migrations |-> <<>>]

\* parseMigrations, lines 31-73.
ParseStep ==
    /\ parsed.state = "none"
    /\ dir # <<>>
    /\ LET c == Collect(dir, 1, <<>>, <<>>)
       IN  IF c.err # "nil"
           THEN parsed' = [state |-> "done", err |-> c.err, read |-> c.read, migrations |-> <<>>]
           ELSE IF c.migrations = <<>>
           THEN parsed' = [state |-> "done", err |-> "ErrNoMigrations", read |-> c.read,
                           migrations |-> <<>>]
           ELSE \E s \in SortedByVersion(c.migrations) :
                   parsed' = [state |-> "done", err |-> "nil", read |-> c.read,
                              migrations |-> s]
    /\ UNCHANGED <<cfg, made, tx, ctx, dir, migrations, store, constraint, clock, effects, opsLeft, faultsLeft,
                   pc, op, target, applied, cur, result, log, prev, store0, value>>

\* ---------------------------------------------------------- executeMigration
\* The characters of a script: the separator, white space, text.
Chars == {";", " ", "a", "b"}
ScriptTexts(max) == UNION {[1..n -> Chars] : n \in 1..max}

\* strings.Split(sql, sep)
RECURSIVE Split(_, _)
Split(sql, sep) ==
    IF \A k \in DOMAIN sql : sql[k] # sep THEN <<sql>>
    ELSE LET k == CHOOSE k \in DOMAIN sql : sql[k] = sep /\ \A j \in 1..(k - 1) : sql[j] # sep
         IN  <<SubSeq(sql, 1, k - 1)>> \o Split(SubSeq(sql, k + 1, Len(sql)), sep)
splitStatements(sql) == Split(sql, ";")

\* strings.TrimSpace of a statement
RECURSIVE TrimSpaces(_)
TrimSpaces(stmt) ==
    IF stmt # <<>> /\ Head(stmt) = " " THEN TrimSpaces(Tail(stmt))
    ELSE IF stmt # <<>> /\ stmt[Len(stmt)] = " " THEN TrimSpaces(SubSeq(stmt, 1, Len(stmt) - 1))
    ELSE stmt

\* No transaction yet for the script sql.  begun counts transactions, i the
\* statements of the split gone through, ran holds the statements handed to
\* tx.Run, pending the effects inside the open transaction, persisted the
\* effects committed, failed the place in ran of the statement that failed.
NoTx(sql) ==
    [state |-> "none", sql |-> sql, begun |-> 0, i |-> 0, ran |-> <<>>, pending |-> <<>>,
     persisted |-> <<>>, failed |-> 0, err |-> "none"]
Background == [done |-> FALSE, at |-> 0, store |-> {}, effects |-> {}]

\* ExecuteWrite rolls the transaction back when the work function or the
\* commit returns an error.
CommittedAnyway(t, err) ==
    [t EXCEPT !.state = "committed", !.persisted = t.pending, !.pending = <<>>, !.err = err]
RolledBack(t, err) == [t EXCEPT !.state = "rolledback", !.pending = <<>>, !.err = err]

ExecFrame ==
    UNCHANGED <<cfg, made, dir, parsed, migrations, store, constraint, clock, effects, opsLeft, faultsLeft,
                pc, op, target, applied, cur, result, log, prev, store0, value>>

\* executeMigration lines 267-275: the session, the split, the transaction.
ExecBegin ==
    /\ tx.state = "none"
    /\ tx.sql # <<>>
    /\ \E ok \in (IF ctx.done THEN {FALSE} ELSE BOOLEAN) :
          tx' = IF ok THEN [tx EXCEPT !.state = "open", !.begun = @ + 1]
                ELSE [tx EXCEPT !.state = "failed", !.err = "ErrBegin"]
    /\ UNCHANGED ctx
    /\ ExecFrame

\* executeMigration lines 276-288: the next statement of the split.
ExecStatement ==
    /\ tx.state = "open"
    /\ tx.i < Len(splitStatements(tx.sql))
    /\ LET stmt == TrimSpaces(splitStatements(tx.sql)[tx.i + 1])
       IN  IF stmt = <<>>
           THEN tx' = [tx EXCEPT !.i = @ + 1]
           ELSE \E ok \in (IF ctx.done THEN {FALSE} ELSE BOOLEAN) :
                   tx' = IF ok
                         THEN [tx EXCEPT !.i = @ + 1, !.ran = Append(@, stmt),
                                         !.pending = Append(@, stmt)]
                         ELSE RolledBack([tx EXCEPT !.i = @ + 1, !.ran = Append(@, stmt),
                                                    !.failed = Len(tx.ran) + 1],
                                         "ErrTransactionFailed")
    /\ UNCHANGED ctx
    /\ ExecFrame

\* executeMigration lines 289-292: the work function returns nil, ExecuteWrite
\* commits.
ExecCommit ==
    /\ tx.state = "open"
    /\ tx.i = Len(splitStatements(tx.sql))
    /\ \E ok \in (IF ctx.done THEN {FALSE} ELSE BOOLEAN) :
          tx' = IF ok THEN CommittedAnyway(tx, "nil") ELSE RolledBack(tx, "ErrCommit")
    /\ UNCHANGED ctx
    /\ ExecFrame

\* The caller cancels the context while the transaction is open.
ExecCancel ==
    /\ tx.state = "open"
    /\ ~ctx.done
    /\ ctx' = [done |-> TRUE, at |-> Len(tx.ran), store |-> {}, effects |-> {}]
    /\ UNCHANGED tx
    /\ ExecFrame

\* ------------------------------------------------------------ neo4jStorage
\* MATCH (m:SchemaMigration) RETURN ... ORDER BY m.version
RECURSIVE GetAppliedMigrations(_)
GetAppliedMigrations(st) ==
    IF st = {} THEN <<>>
    ELSE LET r == CHOOSE x \in st : \A y \in st : x.Version <= y.Version
         IN  <<r>> \o GetAppliedMigrations(st \ {r})

\* MATCH (m:SchemaMigration) RETURN m.version ORDER BY m.version DESC LIMIT 1,
\* and 0 when there is no row.
GetCurrentVersionLowest(st) ==
    IF st = {} THEN 0
    ELSE CHOOSE v \in {r.Version : r \in st} : \A r \in st : v <= r.Version
GetCurrentVersion(st) ==
    IF st = {} THEN 0
    ELSE CHOOSE v \in {r.Version : r \in st} : \A r \in st : r.Version <= v

\* CREATE (m:SchemaMigration {...}) fails when the uniqueness constraint
\* exists and a node with that version is already there.
RecordAllowedNoConstraint(st, c, v) == TRUE
RecordAllowed(st, c, v) == ~(c /\ \E r \in st : r.Version = v)

\* MATCH (m:SchemaMigration {version: $version}) DELETE m
RemoveMigrationKeepAll(st, v) == st
RemoveMigration(st, v) == {r \in st : r.Version # v}

\* ----------------------------------------------------------------- migrator
\* A map that holds only the versions whose stored checksum is the declared one.
AppliedVersionsUnchanged(a) ==
    {a[k].Version : k \in {k \in DOMAIN a : \E i \in DOMAIN migrations :
        migrations[i].Version = a[k].Version /\ migrations[i].Checksum = a[k].Checksum}}
\* appliedVersions := make(map[int]bool); for _, record := range applied {...}
AppliedVersions(a) == {a[k].Version : k \in DOMAIN a}

\* The loop of Up from index j on: skip what the map holds, stop at the first
\* migration it does not hold (0: the loop ran off the end).
UpScanNoSkip(av, j) == IF j > Len(migrations) THEN 0 ELSE j
UpScanStopAtApplied(av, j) ==
    IF j > Len(migrations) \/ migrations[j].Version \in av THEN 0 ELSE j
UpScanAgain(av, j) ==
    IF migrations = <<>> \/ j > Len(migrations) + 1 THEN 0 ELSE IF j > 1 THEN j - 1 ELSE 1
RECURSIVE UpScan(_, _)
UpScan(av, j) ==
    IF j > Len(migrations) THEN 0
    ELSE IF migrations[j].Version \in av THEN UpScan(av, j + 1)
    ELSE j

\* The loop of UpTo from index j on: break at the first version above the
\* target, skip what the map holds.
UpToScanNoBreak(av, t, j) == UpScan(av, j)
UpToScanBreakAtTarget(av, t, j) ==
    IF j > Len(migrations) \/ migrations[j].Version >= t THEN 0
    ELSE UpScan(av, j)
RECURSIVE UpToScan(_, _, _)
UpToScan(av, t, j) ==
    IF j > Len(migrations) THEN 0
    ELSE IF migrations[j].Version > t THEN 0
    ELSE IF migrations[j].Version \in av THEN UpToScan(av, t, j + 1)
    ELSE j

\* The loop of Down that looks for the migration of the current version:
\* the first index with that version, 0 when none has it.
RECURSIVE FindFrom(_, _)
FindFrom(v, j) ==
    IF j > Len(migrations) THEN 0
    ELSE IF migrations[j].Version = v THEN j
    ELSE FindFrom(v, j + 1)
FindMigrationFirst(v) == IF Len(migrations) > 0 THEN 1 ELSE 0
FindMigrationOrLast(v) == IF FindFrom(v, 1) # 0 THEN FindFrom(v, 1) ELSE Len(migrations)
FindMigration(v) == FindFrom(v, 1)

\* Down line 85: if currentVersion == 0 { ...; return nil }
NothingToRollbackNever(c) == FALSE
NothingToRollbackAlways(c) == TRUE
NothingToRollback(c) == c = 0

\* What a storage call or a script run may do: succeed, or fail of itself (the
\* database unreachable, a statement in error) while failures are left.
\* A call that takes the context fails once the context is canceled; a call
\* of the in-memory storage of the tests does not look at it.
OutcomesIgnoringCtx == IF faultsLeft > 0 THEN BOOLEAN ELSE {TRUE}
Outcomes == IF ctx.done THEN {FALSE} ELSE IF faultsLeft > 0 THEN BOOLEAN ELSE {TRUE}
Spend(ok) == faultsLeft' = IF ok \/ ctx.done THEN faultsLeft ELSE faultsLeft - 1

Event(k, v, i, r) == [k |-> k, v |-> v, i |-> i, r |-> r]
Outcome(ok) == IF ok THEN "ok" ELSE "fault"

NoOp == [op |-> "none", target |-> 0, result |-> "none", log |-> <<>>,
         before |-> [op |-> "none", result |-> "none", log |-> <<>>]]

InitOf(seqs, stores, faults, ops, dirs, scripts, cfgs, entries) ==
    /\ migrations \in {DeclaredFrom(s) : s \in seqs}
    /\ store \in stores
    /\ constraint = (store # {})
    /\ clock = MaxVersion + 1
    /\ effects = {r.Version : r \in store}
    /\ opsLeft = ops
    /\ faultsLeft = faults
    /\ pc = [p \in Procs |-> "idle"]
    /\ op = [p \in Procs |-> "none"]
    /\ target = [p \in Procs |-> 0]
    /\ applied = [p \in Procs |-> <<>>]
    /\ cur = [p \in Procs |-> 0]
    /\ result = [p \in Procs |-> "none"]
    /\ log = [p \in Procs |-> <<>>]
    /\ prev = [p \in Procs |-> NoOp]
    /\ store0 = [p \in Procs |-> store]
    /\ value = [p \in Procs |-> <<>>]
    /\ dir \in dirs
    /\ parsed = NotParsed
    /\ tx \in {NoTx(sql) : sql \in scripts}
    /\ ctx = Background
    /\ cfg \in cfgs
    /\ made \in {Calling(e) : e \in entries}

\* No constructor call under way.
InitIn(seqs, stores, faults, ops, dirs, scripts) ==
    InitOf(seqs, stores, faults, ops, dirs, scripts, {NoConfig}, {"none"})

\* The orchestrator's specifications start from a constructed migrator: the
\* directory is not kept, migrations is what the parser returned.
InitFor(seqs, stores, faults, ops) == InitIn(seqs, stores, faults, ops, {<<>>}, {<<>>})

InitWith(seqs, stores, faults) == InitFor(seqs, stores, faults, MaxOps)

\* Any declared sequence the parser can return, any applied state left by
\* earlier runs.
Init ==
    InitWith(SortedVersionSeqs(MaxMigs),
             {{OldRecord(v) : v \in S} : S \in SUBSET Versions}, MaxOps)

\* The operation of p returns res.
Return(p, res) ==
    /\ pc' = [pc EXCEPT ![p] = "done"]
    /\ result' = [result EXCEPT ![p] = res]

\* An operation begins: its first act is storage.Init, which creates the
\* uniqueness constraint IF NOT EXISTS; when Init fails the operation returns.
Begin(p, o, t, ok) ==
    /\ pc[p] \in {"idle", "done"}
    /\ opsLeft > 0
    /\ opsLeft' = opsLeft - 1
    /\ Spend(ok)
    /\ prev' = [prev EXCEPT ![p] =
                  [op |-> op[p], target |-> target[p], result |-> result[p], log |-> log[p],
                   before |-> [op |-> prev[p].op, result |-> prev[p].result,
                               log |-> prev[p].log]]]
    /\ op' = [op EXCEPT ![p] = o]
    /\ target' = [target EXCEPT ![p] = t]
    /\ applied' = [applied EXCEPT ![p] = <<>>]
    /\ cur' = [cur EXCEPT ![p] = 0]
    /\ store0' = [store0 EXCEPT ![p] = store]
    /\ value' = [value EXCEPT ![p] = <<>>]
    /\ log' = [log EXCEPT ![p] = <<Event("Init", -1, 0, Outcome(ok))>>]
    /\ constraint' = (constraint \/ ok)
    /\ UNCHANGED <<cfg, made, tx, ctx, dir, parsed, migrations, store, clock, effects>>

\* Up going on to read the applied records whatever Init returned.
StartUpInitIgnored(p) ==
    \E ok \in Outcomes :
        /\ Begin(p, "Up", 0, ok)
        /\ pc' = [pc EXCEPT ![p] = "getApplied"]
        /\ result' = [result EXCEPT ![p] = "none"]

\* Up, lines 38-41.
StartUp(p) ==
    \E ok \in Outcomes :
        /\ Begin(p, "Up", 0, ok)
        /\ IF ok THEN /\ pc' = [pc EXCEPT ![p] = "getApplied"]
                      /\ result' = [result EXCEPT ![p] = "none"]
                 ELSE Return(p, "ErrInit")

\* UpTo, lines 116-123: Init first, then the test of the target.
StartUpToIn(p, T) ==
    \E ok \in Outcomes, t \in T :
        /\ Begin(p, "UpTo", t, ok)
        /\ IF ~ok THEN Return(p, "ErrInit")
           ELSE IF t < 0 THEN Return(p, "ErrInvalidVersion")
           ELSE /\ pc' = [pc EXCEPT ![p] = "getApplied"]
                /\ result' = [result EXCEPT ![p] = "none"]

StartUpTo(p) == StartUpToIn(p, -1..MaxVersion + 1)

\* Down, lines 75-78.
StartDown(p) ==
    \E ok \in Outcomes :
        /\ Begin(p, "Down", 0, ok)
        /\ IF ok THEN /\ pc' = [pc EXCEPT ![p] = "getVersion"]
                      /\ result' = [result EXCEPT ![p] = "none"]
                 ELSE Return(p, "ErrInit")

\* The next migration Up / UpTo applies, looking from index j on.
NextToApply(p, a, j) ==
    IF op[p] = "Up" THEN UpScan(AppliedVersions(a), j)
    ELSE UpToScan(AppliedVersions(a), target[p], j)

\* Up lines 43-57, UpTo lines 125-143: read the applied records, build the
\* map, and walk to the first migration to apply (or off the end: return nil).
GetAppliedStep(p) ==
    /\ pc[p] = "getApplied"
    /\ \E ok \in Outcomes :
        /\ Spend(ok)
        /\ log' = [log EXCEPT ![p] = Append(@, Event("GetApplied", -1, 0, Outcome(ok)))]
        /\ IF ~ok
           THEN /\ Return(p, "ErrGetApplied")
                /\ UNCHANGED <<applied, cur>>
           ELSE LET a == GetAppliedMigrations(store)
                    j == NextToApply(p, a, 1)
                IN  /\ applied' = [applied EXCEPT ![p] = a]
                    /\ cur' = [cur EXCEPT ![p] = j]
                    /\ IF j = 0 THEN Return(p, "ok")
                       ELSE /\ pc' = [pc EXCEPT ![p] = "apply"]
                            /\ UNCHANGED result
    /\ UNCHANGED <<cfg, made, tx, ctx, dir, parsed, migrations, store, constraint, clock, effects, opsLeft, op, target,
                   prev, store0, value>>

\* Up lines 59-63, UpTo lines 145-149: run the forward script in one
\* transaction; when it fails nothing of it persists and the operation returns.
ApplyStep(p) ==
    /\ pc[p] = "apply"
    /\ LET m == migrations[cur[p]] IN
       \E ok \in Outcomes :
        /\ Spend(ok)
        /\ log' = [log EXCEPT ![p] = Append(@, Event("ExecUp", m.Version, cur[p], Outcome(ok)))]
        /\ IF ok
           THEN /\ effects' = effects \cup {m.Version}
                /\ pc' = [pc EXCEPT ![p] = "record"]
                /\ UNCHANGED result
           ELSE /\ Return(p, "ErrApply")
                /\ UNCHANGED effects
    /\ UNCHANGED <<cfg, made, tx, ctx, dir, parsed, migrations, store, constraint, clock, opsLeft, op, target, applied,
                   cur, prev, store0, value>>

\* Up lines 65-70, UpTo lines 151-156: record the migration; on an error
\* return, else go on with the loop (the map is not updated on the way).
RecordStep(p) ==
    /\ pc[p] = "record"
    /\ LET m == migrations[cur[p]] IN
       \E ok \in Outcomes :
        LET r == IF ~ok THEN "fault"
                 ELSE IF RecordAllowed(store, constraint, m.Version) THEN "ok"
                 ELSE "dup"
            j == NextToApply(p, applied[p], cur[p] + 1)
        IN  /\ Spend(ok)
            /\ log' = [log EXCEPT ![p] = Append(@, Event("Record", m.Version, cur[p], r))]
            /\ IF r = "ok"
               THEN /\ store' = store \cup {MigrationRecord(m, clock)}
                    /\ clock' = clock + 1
                    /\ cur' = [cur EXCEPT ![p] = j]
                    /\ IF j = 0 THEN Return(p, "ok")
                       ELSE /\ pc' = [pc EXCEPT ![p] = "apply"]
                            /\ UNCHANGED result
               ELSE /\ Return(p, "ErrRecord")
                    /\ UNCHANGED <<store, clock, cur>>
    /\ UNCHANGED <<cfg, made, tx, ctx, dir, parsed, migrations, constraint, effects, opsLeft, op, target, applied,
                   prev, store0, value>>

\* Down lines 80-100: read the current version; 0 is the no-op return; else
\* look the migration of that version up.
GetVersionStep(p) ==
    /\ pc[p] = "getVersion"
    /\ \E ok \in Outcomes :
        LET c == GetCurrentVersion(store)
            j == FindMigration(c)
        IN  /\ Spend(ok)
            /\ log' = [log EXCEPT ![p] =
                         Append(@, Event("GetVersion", IF ok THEN c ELSE -1, 0, Outcome(ok)))]
            /\ IF ~ok THEN Return(p, "ErrGetVersion") /\ UNCHANGED cur
               ELSE IF NothingToRollback(c) THEN Return(p, "ok") /\ UNCHANGED cur
               ELSE IF j = 0 THEN Return(p, "ErrMigrationNotFound") /\ UNCHANGED cur
               ELSE /\ cur' = [cur EXCEPT ![p] = j]
                    /\ pc' = [pc EXCEPT ![p] = "rollback"]
                    /\ UNCHANGED result
    /\ UNCHANGED <<cfg, made, tx, ctx, dir, parsed, migrations, store, constraint, clock, effects, opsLeft, op, target,
                   applied, prev, store0, value>>

\* Down lines 102-106: run the reverse script in one transaction.
RollbackStep(p) ==
    /\ pc[p] = "rollback"
    /\ LET m == migrations[cur[p]] IN
       \E ok \in Outcomes :
        /\ Spend(ok)
        /\ log' = [log EXCEPT ![p] = Append(@, Event("ExecDown", m.Version, cur[p], Outcome(ok)))]
        /\ IF ok
           THEN /\ effects' = effects \ {m.Version}
                /\ pc' = [pc EXCEPT ![p] = "remove"]
                /\ UNCHANGED result
           ELSE /\ Return(p, "ErrRollback")
                /\ UNCHANGED effects
    /\ UNCHANGED <<cfg, made, tx, ctx, dir, parsed, migrations, store, constraint, clock, opsLeft, op, target, applied,
                   cur, prev, store0, value>>

\* Down lines 108-113: remove the record, return.
RemoveStep(p) ==
    /\ pc[p] = "remove"
    /\ LET m == migrations[cur[p]] IN
       \E ok \in Outcomes :
        /\ Spend(ok)
        /\ log' = [log EXCEPT ![p] = Append(@, Event("Remove", m.Version, cur[p], Outcome(ok)))]
        /\ IF ok
           THEN /\ store' = RemoveMigration(store, m.Version)
                /\ Return(p, "ok")
           ELSE /\ Return(p, "ErrRemove")
                /\ UNCHANGED store
    /\ UNCHANGED <<cfg, made, tx, ctx, dir, parsed, migrations, constraint, clock, effects, opsLeft, op, target, applied,
                   cur, prev, store0, value>>

\* ------------------------------------------------------------------ DownTo
\* DownTo, lines 161-168: Init first, then the test of the target.
StartDownToNoTest(p) ==
    \E ok \in Outcomes, t \in -1..MaxVersion + 1 :
        /\ Begin(p, "DownTo", t, ok)
        /\ IF ~ok THEN Return(p, "ErrInit")
           ELSE /\ pc' = [pc EXCEPT ![p] = "getAppliedDown"]
                /\ result' = [result EXCEPT ![p] = "none"]
StartDownTo(p) ==
    \E ok \in Outcomes, t \in -1..MaxVersion + 1 :
        /\ Begin(p, "DownTo", t, ok)
        /\ IF ~ok THEN Return(p, "ErrInit")
           ELSE IF t < 0 THEN Return(p, "ErrInvalidVersion")
           ELSE /\ pc' = [pc EXCEPT ![p] = "getAppliedDown"]
                /\ result' = [result EXCEPT ![p] = "none"]

\* DownTo lines 175-180: the loop walks the slice from its last element down
\* and stops at its start or at the first record not above the target.
DownToStopsBelow(a, t) == Len(a) = 0 \/ a[Len(a)].Version < t
DownToStops(a, t) == Len(a) = 0 \/ a[Len(a)].Version <= t

\* DownTo lines 175-192, one pass of the loop head over a, the part of the
\* slice not yet visited: stop, fail on a record without declared migration,
\* or take the migration of the last record in hand.
DownToLoop(p, a) ==
    /\ applied' = [applied EXCEPT ![p] = a]
    /\ IF DownToStops(a, target[p]) THEN Return(p, "ok") /\ UNCHANGED cur
       ELSE IF FindMigration(a[Len(a)].Version) = 0
            THEN Return(p, "ErrMigrationNotFound") /\ UNCHANGED cur
       ELSE /\ cur' = [cur EXCEPT ![p] = FindMigration(a[Len(a)].Version)]
            /\ pc' = [pc EXCEPT ![p] = "rollbackTo"]
            /\ UNCHANGED result

\* DownTo lines 170-192: read the applied records (the storage returns one of
\* Lists) and enter the loop.
DownToReadIn(p, Lists) ==
    /\ pc[p] = "getAppliedDown"
    /\ \E ok \in Outcomes :
        /\ Spend(ok)
        /\ log' = [log EXCEPT ![p] = Append(@, Event("GetApplied", -1, 0, Outcome(ok)))]
        /\ IF ~ok
           THEN /\ Return(p, "ErrGetApplied")
                /\ UNCHANGED <<applied, cur>>
           ELSE \E a \in Lists : DownToLoop(p, a)
    /\ UNCHANGED <<cfg, made, tx, ctx, dir, parsed, migrations, store, constraint, clock, effects, opsLeft, op, target,
                   prev, store0, value>>

\* Against neo4jStorage the slice is ordered by version.
DownToReadStep(p) == DownToReadIn(p, {GetAppliedMigrations(store)})

\* mockStorage.GetAppliedMigrations ranges over a Go map: the records come in
\* an unspecified order, any of them.
MockGetAppliedMigrations(st) ==
    {a \in [1..Cardinality(st) -> st] :
        \A i \in DOMAIN a, j \in DOMAIN a : i # j => a[i] # a[j]}

DownToReadMock(p) == DownToReadIn(p, MockGetAppliedMigrations(store))

\* DownTo lines 194-198: run the reverse script in one transaction.
DownToRollbackKeepsGoing(p) ==
    /\ pc[p] = "rollbackTo"
    /\ LET m == migrations[cur[p]] IN
       \E ok \in Outcomes :
        /\ Spend(ok)
        /\ log' = [log EXCEPT ![p] = Append(@, Event("ExecDown", m.Version, cur[p], Outcome(ok)))]
        /\ effects' = IF ok THEN effects \ {m.Version} ELSE effects
        /\ pc' = [pc EXCEPT ![p] = "removeTo"]
        /\ UNCHANGED result
    /\ UNCHANGED <<cfg, made, tx, ctx, dir, parsed, migrations, store, constraint, clock, opsLeft, op, target, applied,
                   cur, prev, store0, value>>
DownToRollbackStep(p) ==
    /\ pc[p] = "rollbackTo"
    /\ LET m == migrations[cur[p]] IN
       \E ok \in Outcomes :
        /\ Spend(ok)
        /\ log' = [log EXCEPT ![p] = Append(@, Event("ExecDown", m.Version, cur[p], Outcome(ok)))]
        /\ IF ok
           THEN /\ effects' = effects \ {m.Version}
                /\ pc' = [pc EXCEPT ![p] = "removeTo"]
                /\ UNCHANGED result
           ELSE /\ Return(p, "ErrRollback")
                /\ UNCHANGED effects
    /\ UNCHANGED <<cfg, made, tx, ctx, dir, parsed, migrations, store, constraint, clock, opsLeft, op, target, applied,
                   cur, prev, store0, value>>

\* DownTo lines 200-205: remove the record, go on with the record before it.
DownToRemoveStep(p) ==
    /\ pc[p] = "removeTo"
    /\ LET m == migrations[cur[p]] IN
       \E ok \in Outcomes :
        /\ Spend(ok)
        /\ log' = [log EXCEPT ![p] = Append(@, Event("Remove", m.Version, cur[p], Outcome(ok)))]
        /\ IF ok
           THEN /\ store' = RemoveMigration(store, m.Version)
                /\ DownToLoop(p, SubSeq(applied[p], 1, Len(applied[p]) - 1))
           ELSE /\ Return(p, "ErrRemove")
                /\ UNCHANGED <<store, applied, cur>>
    /\ UNCHANGED <<cfg, made, tx, ctx, dir, parsed, migrations, constraint, clock, effects, opsLeft, op, target,
                   prev, store0, value>>

\* ------------------------------------------------------- Status and Version
\* AppliedAt of a status row of a migration that is not applied: a nil pointer.
NilTime == -1

\* appliedMap[record.Version] = record, for the records in slice order: the
\* last record of a version is the one the map holds.
AppliedMap(a, v) ==
    LET ks == {k \in DOMAIN a : a[k].Version = v}
    IN  a[CHOOSE k \in ks : \A k2 \in ks : k2 <= k]

\* Status lines 226-244: the row of one declared migration.
MigrationStatusStored(m, a) ==
    LET exists == \E k \in DOMAIN a : a[k].Version = m.Version
    IN  [Version |-> m.Version, Name |-> m.Name, Applied |-> exists,
         AppliedAt |-> IF exists THEN AppliedMap(a, m.Version).AppliedAt ELSE NilTime,
         Checksum |-> IF exists THEN AppliedMap(a, m.Version).Checksum ELSE m.Checksum]
MigrationStatus(m, a) ==
    LET exists == \E k \in DOMAIN a : a[k].Version = m.Version
    IN  [Version |-> m.Version, Name |-> m.Name, Applied |-> exists,
         AppliedAt |-> IF exists THEN AppliedMap(a, m.Version).AppliedAt ELSE NilTime,
         Checksum |-> m.Checksum]

\* Status lines 234-241: the stored checksum of an applied migration differs
\* from the declared one; the logger is sent a warning.
ChecksumDriftNever(m, a) == FALSE
ChecksumDrift(m, a) ==
    /\ \E k \in DOMAIN a : a[k].Version = m.Version
    /\ AppliedMap(a, m.Version).Checksum # m.Checksum

\* The warnings of one Status call, in the order of the declared migrations.
StatusWarnings(a) ==
    SelectSeq([i \in DOMAIN migrations |-> Event("Warn", migrations[i].Version, i, "ok")],
              LAMBDA e : ChecksumDrift(migrations[e.i], a))

\* Status, lines 210-213.
StartStatus(p) ==
    \E ok \in Outcomes :
        /\ Begin(p, "Status", 0, ok)
        /\ IF ok THEN /\ pc' = [pc EXCEPT ![p] = "status"]
                      /\ result' = [result EXCEPT ![p] = "none"]
                 ELSE Return(p, "ErrInit")

\* Status lines 215-247: read the applied records, one row per declared
\* migration in declared order.
StatusStep(p) ==
    /\ pc[p] = "status"
    /\ \E ok \in Outcomes :
        /\ Spend(ok)
        /\ log' = [log EXCEPT ![p] =
                     Append(@, Event("GetApplied", -1, 0, Outcome(ok))) \o
                     (IF ok THEN StatusWarnings(GetAppliedMigrations(store)) ELSE <<>>)]
        /\ IF ~ok
           THEN /\ Return(p, "ErrGetApplied")
                /\ UNCHANGED value
           ELSE LET a == GetAppliedMigrations(store)
                IN  /\ value' = [value EXCEPT ![p] =
                                   [i \in DOMAIN migrations |-> MigrationStatus(migrations[i], a)]]
                    /\ Return(p, "ok")
    /\ UNCHANGED <<cfg, made, tx, ctx, dir, parsed, migrations, store, constraint, clock, effects, opsLeft, op, target,
                   applied, cur, prev, store0>>

\* Version, lines 250-253.
StartVersion(p) ==
    \E ok \in Outcomes :
        /\ Begin(p, "Version", 0, ok)
        /\ IF ok THEN /\ pc' = [pc EXCEPT ![p] = "version"]
                      /\ result' = [result EXCEPT ![p] = "none"]
                 ELSE Return(p, "ErrInit")

\* Version line 255: return m.storage.GetCurrentVersion(ctx)
VersionStep(p) ==
    /\ pc[p] = "version"
    /\ \E ok \in Outcomes :
        /\ Spend(ok)
        /\ log' = [log EXCEPT ![p] =
                     Append(@, Event("GetVersion", IF ok THEN GetCurrentVersion(store) ELSE -1,
                                     0, Outcome(ok)))]
        /\ IF ok
           THEN /\ value' = [value EXCEPT ![p] = <<GetCurrentVersion(store)>>]
                /\ Return(p, "ok")
           ELSE /\ Return(p, "ErrGetVersion")
                /\ UNCHANGED value
    /\ UNCHANGED <<cfg, made, tx, ctx, dir, parsed, migrations, store, constraint, clock, effects, opsLeft, op, target,
                   applied, cur, prev, store0>>

\* One orchestrator, calling Up and Down one after the other.
Next ==
    \E p \in Solo :
        \/ StartUp(p)
        \/ StartDown(p)
        \/ GetAppliedStep(p)
        \/ ApplyStep(p)
        \/ RecordStep(p)
        \/ GetVersionStep(p)
        \/ RollbackStep(p)
        \/ RemoveStep(p)

Spec == Init /\ [][Next]_vars

\* Independent orchestrators, built from the same declared migrations, calling
\* Up and UpTo(1) against one initially empty database.
InitConc == InitWith(SortedVersionSeqs(MaxConcMigs), {{}}, MaxConcFaults)

\* The orchestrators run the same code on the same declared migrations, so
\* they are numbered in the order of their first call.
InOrder(p) == \A q \in Procs : q < p => op[q] # "none"

NextConc ==
    \E p \in Procs :
        \/ InOrder(p) /\ StartUp(p)
        \/ InOrder(p) /\ StartUpToIn(p, {1})
        \/ GetAppliedStep(p)
        \/ ApplyStep(p)
        \/ RecordStep(p)

SpecConc == InitConc /\ [][NextConc]_vars

\* The full migration cycle: one orchestrator on an initially empty database
\* calling Up and Down in turn, no storage call and no script failing.
InitCycle == InitFor(SortedVersionSeqs(MaxMigs), {{}}, 0, MaxCycleOps)

SpecCycle == InitCycle /\ [][Next]_vars

\* One orchestrator making one call, any operation with any target, against
\* any applied state.
Fresh(p) == op[p] = "none"

NextTo ==
    \E p \in Solo :
        \/ Fresh(p) /\ StartUp(p)
        \/ Fresh(p) /\ StartUpTo(p)
        \/ Fresh(p) /\ StartDown(p)
        \/ Fresh(p) /\ StartDownTo(p)
        \/ Fresh(p) /\ StartStatus(p)
        \/ Fresh(p) /\ StartVersion(p)
        \/ GetAppliedStep(p)
        \/ ApplyStep(p)
        \/ RecordStep(p)
        \/ GetVersionStep(p)
        \/ RollbackStep(p)
        \/ RemoveStep(p)
        \/ DownToReadStep(p)
        \/ DownToRollbackStep(p)
        \/ DownToRemoveStep(p)
        \/ StatusStep(p)
        \/ VersionStep(p)

SpecTo == Init /\ [][NextTo]_vars

\* The same, every Storage call and every script execution returning: a step
\* that can be taken is taken.
SpecToFair == Init /\ [][NextTo]_vars /\ WF_vars(NextTo)

\* One orchestrator calling Up and Status one after the other: Status sees
\* records of earlier runs and records this orchestrator wrote.
NextStatus ==
    \E p \in Solo :
        \/ StartUp(p)
        \/ StartStatus(p)
        \/ GetAppliedStep(p)
        \/ ApplyStep(p)
        \/ RecordStep(p)
        \/ StatusStep(p)

SpecStatus == Init /\ [][NextStatus]_vars

\* One orchestrator making one DownTo call against mockStorage.
NextMock ==
    \E p \in Solo :
        \/ Fresh(p) /\ StartDownTo(p)
        \/ DownToReadMock(p)
        \/ DownToRollbackStep(p)
        \/ DownToRemoveStep(p)

SpecMock == Init /\ [][NextMock]_vars

\* One operation of Up, UpTo or DownTo whose context the caller cancels on
\* the way.
Cancel(p) ==
    /\ pc[p] # "idle"
    /\ op[p] \in {"Up", "UpTo", "DownTo"}
    /\ ~ctx.done
    /\ ctx' = [done |-> TRUE, at |-> Len(log[p]), store |-> store, effects |-> effects]
    /\ UNCHANGED <<cfg, made, tx, dir, parsed, migrations, store, constraint, clock, effects, opsLeft,
                   faultsLeft, pc, op, target, applied, cur, result, log, prev, store0, value>>

NextCancel ==
    \E p \in Solo :
        \/ Fresh(p) /\ StartUp(p)
        \/ Fresh(p) /\ StartUpTo(p)
        \/ Fresh(p) /\ StartDownTo(p)
        \/ GetAppliedStep(p)
        \/ ApplyStep(p)
        \/ RecordStep(p)
        \/ DownToReadStep(p)
        \/ DownToRollbackStep(p)
        \/ DownToRemoveStep(p)
        \/ Cancel(p)

SpecCancel == Init /\ [][NextCancel]_vars

\* executeMigration on one script, statement by statement.
InitExec == InitIn({<<>>}, {{}}, 0, 0, {<<>>}, ScriptTexts(MaxChars))
NextExec == ExecBegin \/ ExecStatement \/ ExecCommit \/ ExecCancel
SpecExec == InitExec /\ [][NextExec]_vars

\* The declared versions are distinct.
StrictlyAscending(s) == \A i \in DOMAIN s, j \in DOMAIN s : i < j => s[i] < s[j]

\* Independent orchestrators, each calling Up and Down, over distinct declared
\* versions and from an empty store; no call fails.
InitUpDown ==
    InitFor({s \in SortedVersionSeqs(MaxConcMigs) : StrictlyAscending(s)}, {{}}, 0, MaxCycleOps)
NextUpDown ==
    \E p \in Procs :
        \/ InOrder(p) /\ StartUp(p)
        \/ InOrder(p) /\ StartDown(p)
        \/ GetAppliedStep(p)
        \/ ApplyStep(p)
        \/ RecordStep(p)
        \/ GetVersionStep(p)
        \/ RollbackStep(p)
        \/ RemoveStep(p)
SpecUpDown == InitUpDown /\ [][NextUpDown]_vars

\* One orchestrator, any sequence of Up, UpTo, Down and DownTo from an empty
\* store, over distinct declared versions; calls may fail.
InitSeq ==
    InitFor({s \in SortedVersionSeqs(MaxConcMigs) : StrictlyAscending(s)}, {{}},
            MaxConcFaults, MaxOps)
NextSeq ==
    \E p \in Solo :
        \/ StartUp(p)
        \/ StartUpTo(p)
        \/ StartDown(p)
        \/ StartDownTo(p)
        \/ GetAppliedStep(p)
        \/ ApplyStep(p)
        \/ RecordStep(p)
        \/ GetVersionStep(p)
        \/ RollbackStep(p)
        \/ RemoveStep(p)
        \/ DownToReadStep(p)
        \/ DownToRollbackStep(p)
        \/ DownToRemoveStep(p)
SpecSeq == InitSeq /\ [][NextSeq]_vars

\* ------------------------------------------------------- parser specifications
\* newParser(fs).parseMigrations(dir), before a migrator exists.
Digits == {0, 1}
DigitSeqs == UNION {[1..n -> Digits] : n \in 1..MaxDigits}
Valid == <<UpMarker, Statement, DownMarker, Statement>>
OnlyUp == <<UpMarker, Statement>>
SampleContents == {Valid, OnlyUp}

\* A subdirectory with a migration's name, the three kinds of files whose
\* name does not match (nothing in them: reading one would fail the parse),
\* and files whose name matches.
Strays ==
    {Entry(TRUE, <<1>>, "x", "cypher", <<>>),
     Entry(FALSE, <<>>, "x", "cypher", <<>>),
     Entry(FALSE, <<1>>, "", "cypher", <<>>),
     Entry(FALSE, <<1>>, "x", "txt", <<>>)}
Files == {Entry(FALSE, ds, "x", "cypher", c) : ds \in DigitSeqs, c \in SampleContents}
NamesDistinct(d) ==
    \A i \in DOMAIN d, j \in DOMAIN d :
        i # j => <<d[i].digits, d[i].base, d[i].ext>> # <<d[j].digits, d[j].base, d[j].ext>>
Directories(max) ==
    {d \in UNION {[1..n -> Strays \cup Files] : n \in 1..max} : NamesDistinct(d)}

InitParse == InitIn({<<>>}, {{}}, 0, 0, Directories(MaxEntries), {<<>>})
SpecParse == InitParse /\ [][ParseStep]_vars

\* One file of any content, alone or beside one other file in either order: a
\* valid one, one without a reverse section, one whose prefix Atoi refuses.
Overflowing == [i \in 1..MaxDigits |-> 1]
Companions ==
    {Entry(FALSE, <<1, 0>>, "y", "cypher", Valid),
     Entry(FALSE, <<1, 0>>, "y", "cypher", OnlyUp),
     Entry(FALSE, Overflowing, "y", "cypher", <<>>)}
FileDirectories(max) ==
    LET any == {Entry(FALSE, <<1>>, "x", "cypher", c) : c \in Contents(max)}
    IN  {<<f>> : f \in any}
        \cup {<<f, g>> : f \in any, g \in Companions}
        \cup {<<g, f>> : f \in any, g \in Companions}
InitFile == InitIn({<<>>}, {{}}, 0, 0, FileDirectories(MaxLines), {<<>>})
SpecFile == InitFile /\ [][ParseStep]_vars

\* Two files that parse, of any two contents: 1_x.cypher beside 01_x.cypher
\* (the same version and name) or beside 10_y.cypher.
ValidContents(max) == {c \in Contents(max) : splitUpDown(c).err = "nil"}
PairDirectories(max) ==
    {<<Entry(FALSE, <<1>>, "x", "cypher", c1), Entry(FALSE, n[1], n[2], "cypher", c2)>> :
        c1 \in ValidContents(max), c2 \in ValidContents(max),
        n \in {<<<<0, 1>>, "x">>, <<<<1, 0>>, "y">>}}
InitPair == InitIn({<<>>}, {{}}, 0, 0, PairDirectories(MaxLines), {<<>>})
SpecPair == InitPair /\ [][ParseStep]_vars

\* One file whose lines are markers, statements and lines that hold a marker
\* token and more.
MarkedDirectories(max) ==
    {<<Entry(FALSE, <<1>>, "x", "cypher", c)>> : c \in MarkedContents(max)}
InitSplit == InitIn({<<>>}, {{}}, 0, 0, MarkedDirectories(MaxLines), {<<>>})
SpecSplit == InitSplit /\ [][ParseStep]_vars

\* -------------------------------------------------- constructor specification
\* What the two directories and the two embedded file systems of the
\* configurations hold: a migration, or a stray file only.
Listing(name) ==
    IF name = "d" THEN <<Entry(FALSE, <<1>>, "x", "cypher", Valid)>>
    ELSE IF name = "F" THEN <<Entry(FALSE, <<1, 0>>, "y", "cypher", Valid)>>
    ELSE <<Entry(FALSE, <<>>, "README", "md", <<>>)>>
Configs ==
    {Config(uri, user, pass, d, f) :
        uri \in {"", "bolt://h"}, user \in {"", "neo4j"}, pass \in {"", "secret"},
        d \in {"", "d", "e"}, f \in {"", "F", "G"}}

ConstructorFrame ==
    UNCHANGED <<tx, ctx, cfg, migrations, store, constraint, clock, effects, opsLeft, faultsLeft,
                pc, op, target, applied, cur, result, log, prev, store0, value>>

\* New lines 22-25.
NewStep ==
    /\ made.pc = "New"
    /\ made' = IF validateConfig(cfg) # "nil"
               THEN [made EXCEPT !.pc = "done", !.err = validateConfig(cfg)]
               ELSE [made EXCEPT !.pc = "connect"]
    /\ UNCHANGED <<dir, parsed>>
    /\ ConstructorFrame

\* New lines 27-40: the driver, the connectivity test.
ConnectStep ==
    /\ made.pc = "connect"
    /\ \E ok \in BOOLEAN :
          made' = IF ok
                  THEN [made EXCEPT !.pc = "NewWithDriver", !.io = Append(@, "connect")]
                  ELSE [made EXCEPT !.pc = "done", !.io = Append(@, "connect"),
                                    !.err = "ErrDatabaseConnection"]
    /\ UNCHANGED <<dir, parsed>>
    /\ ConstructorFrame

\* NewWithDriver lines 44-68: the embedded file system when there is one,
\* else the directory.
WithDriverStep ==
    /\ made.pc = "NewWithDriver"
    /\ IF validateConfig(cfg) # "nil"
       THEN /\ made' = [made EXCEPT !.pc = "done", !.err = validateConfig(cfg)]
            /\ UNCHANGED dir
       ELSE IF cfg.MigrationsFS # ""
       THEN /\ made' = [made EXCEPT !.pc = "newMigrator", !.source = "MigrationsFS"]
            /\ dir' = Listing(cfg.MigrationsFS)
       ELSE /\ made' = [made EXCEPT !.pc = "newMigrator", !.source = "MigrationsDir"]
            /\ dir' = Listing(cfg.MigrationsDir)
    /\ UNCHANGED parsed
    /\ ConstructorFrame

\* newMigrator lines 22-23.
NewMigratorParse ==
    /\ made.pc = "newMigrator"
    /\ ParseStep

\* newMigrator lines 24-35, NewWithDriver lines 70-75.
NewMigratorStep ==
    /\ made.pc = "newMigrator"
    /\ parsed.state = "done"
    /\ made' = [made EXCEPT !.pc = "done", !.err = parsed.err, !.io = Append(@, "readdir")]
    /\ UNCHANGED <<dir, parsed>>
    /\ ConstructorFrame

InitNew == InitOf({<<>>}, {{}}, 0, 0, {<<>>}, {<<>>}, Configs, {"New", "NewWithDriver"})
NextNew == NewStep \/ ConnectStep \/ WithDriverStep \/ NewMigratorParse \/ NewMigratorStep
SpecNew == InitNew /\ [][NextNew]_vars

\* ------------------------------------------------------- reading the logs
Returned(p) == pc[p] = "done"
Events(l, K) == SelectSeq(l, LAMBDA e : e.k \in K)
Scripts(l) == Events(l, {"ExecUp", "ExecDown"})
VersionsOf(l) == {l[n].v : n \in DOMAIN l}
Has(l, k, r) == \E n \in DOMAIN l : l[n].k = k /\ l[n].r = r
\* A storage call other than the record write failed: the store was unavailable.
Unavailable(l) ==
    \E n \in DOMAIN l : l[n].r = "fault" /\ l[n].k \in {"Init", "GetApplied", "GetVersion"}
Faulted(l) == \E n \in DOMAIN l : l[n].r = "fault"
Recorded(v) == \E r \in store : r.Version = v
DeclaredVersions == {migrations[i].Version : i \in DOMAIN migrations}
DistinctVersions ==
    \A i \in DOMAIN migrations, j \in DOMAIN migrations :
        i # j => migrations[i].Version # migrations[j].Version

\* ------------------------------------------------------------------ claims
\* The version whose forward script failed in an aborted Up / UpTo call.
FailedVersion(l) == l[Len(l)].v
AbortedOnScript(o) ==
    /\ o.result = "ErrApply"
    /\ o.log # <<>>
    /\ o.log[Len(o.log)].k = "ExecUp"
    /\ o.log[Len(o.log)].r = "fault"

\* C1: idempotence of Up.  When Up returned success and the same orchestrator
\* calls Up again (it is the only one, so nothing else changes the store),
\* the second call runs no forward script, calls RecordMigration for no
\* version, leaves the applied records as they were, and returns success
\* (unless the store itself is unavailable to the second call).
C1_UpIdempotent ==
    \A p \in Solo :
        (op[p] = "Up" /\ prev[p].op = "Up" /\ prev[p].result = "ok") =>
            /\ Events(log[p], {"ExecUp", "ExecDown", "Record", "Remove"}) = <<>>
            /\ store = store0[p]
            /\ (Returned(p) /\ ~Unavailable(log[p])) => result[p] = "ok"

\* The second Up has returned success after a first Up that applied something.
C1_Witness ==
    \E p \in Solo :
        /\ op[p] = "Up" /\ prev[p].op = "Up" /\ prev[p].result = "ok"
        /\ Has(prev[p].log, "Record", "ok")
        /\ Returned(p) /\ result[p] = "ok"

\* C2: partial-failure non-recording.  If the forward script of declared
\* version v fails during Up or UpTo, the call returns an error, no applied
\* record exists for v afterwards, no later forward script runs in that call,
\* and the records written earlier in the call remain.
C2_FailedScriptNotRecorded ==
    \A p \in Solo :
        (op[p] \in {"Up", "UpTo"} /\ Has(log[p], "ExecUp", "fault")) =>
            /\ Returned(p) /\ result[p] # "ok"
            /\ \A n \in DOMAIN log[p] :
                (log[p][n].k = "ExecUp" /\ log[p][n].r = "fault") =>
                    /\ n = Len(log[p])
                    /\ ~Recorded(log[p][n].v)
            /\ \A n \in DOMAIN log[p] :
                (log[p][n].k = "Record" /\ log[p][n].r = "ok") => Recorded(log[p][n].v)

\* The same statement for declared sequences whose versions are distinct.
C2_DistinctVersions == DistinctVersions => C2_FailedScriptNotRecorded

\* C3: retry after failure.  After an Up that aborted because version v's
\* forward script failed, the next Up (the store being available) retries
\* exactly that migration: the first forward script it runs is v's, and it
\* runs no forward script of a version that already has an applied record.
C3_NextUpRetriesFailed ==
    \A p \in Solo :
        (op[p] = "Up" /\ prev[p].op = "Up" /\ AbortedOnScript(prev[p])) =>
            LET ups == Events(log[p], {"ExecUp"}) IN
            /\ (Returned(p) /\ ~Unavailable(log[p])) =>
                    (ups # <<>> /\ ups[1].v = FailedVersion(prev[p].log))
            /\ ups # <<>> => ups[1].v = FailedVersion(prev[p].log)
            /\ \A n \in DOMAIN ups : \A r \in store0[p] : r.Version # ups[n].v

\* The same statement for declared sequences whose versions are distinct.
C3_DistinctVersions == DistinctVersions => C3_NextUpRetriesFailed

\* C4: exactly one recorded version under races.  The store never holds two
\* applied records of one version; of the RecordMigration calls for one
\* version at most one succeeds, a call that meets an existing record fails,
\* and the orchestrator whose write failed returns an error from Up / UpTo.
C4_OneRecordPerVersion ==
    /\ \A r1 \in store, r2 \in store : r1.Version = r2.Version => r1 = r2
    /\ \A p \in Procs, q \in Procs :
        LET lp == prev[p].log \o log[p]
            lq == prev[q].log \o log[q]
        IN  \A n \in DOMAIN lp, k \in DOMAIN lq :
                (/\ lp[n].k = "Record" /\ lq[k].k = "Record"
                 /\ lp[n].v = lq[k].v
                 /\ <<p, n>> # <<q, k>>) => ~(lp[n].r = "ok" /\ lq[k].r = "ok")
    /\ \A p \in Procs : \A n \in DOMAIN log[p] :
        /\ (log[p][n].k = "Record" /\ log[p][n].r # "fault") => Recorded(log[p][n].v)
        /\ (log[p][n].k = "Record" /\ log[p][n].r = "dup") =>
            /\ n = Len(log[p])
            /\ Returned(p) /\ result[p] = "ErrRecord"

\* Two orchestrators wrote the record of one version: one write succeeded, the
\* other met the constraint and its Up / UpTo returned the error.
C4_Witness ==
    \E p \in Procs, q \in Procs :
        /\ p # q
        /\ \E n \in DOMAIN log[p], k \in DOMAIN log[q] :
            /\ log[p][n].k = "Record" /\ log[p][n].r = "ok"
            /\ log[q][k].k = "Record" /\ log[q][k].r = "dup"
            /\ log[p][n].v = log[q][k].v
        /\ Returned(q) /\ result[q] = "ErrRecord"

\* C5: concurrent Up convergence.  When every orchestrator runs one Up on the
\* initially empty store and no script and no storage call fails of itself,
\* then once all calls have returned at least one returned success, every
\* declared version has an applied record, and the current version is the
\* highest declared version.
AllUpsReturned ==
    \A p \in Procs :
        /\ op[p] = "Up" /\ prev[p].op = "none"
        /\ Returned(p) /\ ~Faulted(log[p])
C5_ConcurrentUpConverges ==
    AllUpsReturned =>
        /\ \E p \in Procs : result[p] = "ok"
        /\ \A v \in DeclaredVersions : Recorded(v)
        /\ GetCurrentVersion(store) = migrations[Len(migrations)].Version

\* The same statement for declared sequences whose versions are distinct.
C5_DistinctVersions == DistinctVersions => C5_ConcurrentUpConverges

\* C6: Up applies all pending migrations.  From any applied state, when Up
\* returns success (one orchestrator), every declared version has an applied
\* record and every record that existed before the call still exists.
C6_UpAppliesAll ==
    \A p \in Solo :
        (op[p] = "Up" /\ Returned(p) /\ result[p] = "ok") =>
            /\ \A v \in DeclaredVersions : Recorded(v)
            /\ store0[p] \subseteq store

\* Up returned success from a partial applied state, having applied something.
C6_Witness ==
    \E p \in Solo :
        /\ op[p] = "Up" /\ Returned(p) /\ result[p] = "ok"
        /\ store0[p] # {} /\ store0[p] # store
        /\ \E v \in DeclaredVersions : \E r \in store0[p] : r.Version = v

\* C7: Up ordering.  Within one Up or UpTo call the forward scripts run in
\* strictly ascending version order, one migration at a time: the record of a
\* version is written after its forward script succeeded and before the
\* forward script of the next version starts.
C7_UpOrdering ==
    \A p \in Solo :
        op[p] \in {"Up", "UpTo"} =>
            LET l == Events(log[p], {"ExecUp", "Record"}) IN
            /\ \A n \in DOMAIN l, k \in DOMAIN l :
                (n < k /\ l[n].k = "ExecUp" /\ l[k].k = "ExecUp") => l[n].v < l[k].v
            /\ \A n \in DOMAIN l :
                /\ l[n].k = "Record" =>
                    (n > 1 /\ l[n-1].k = "ExecUp" /\ l[n-1].r = "ok" /\ l[n-1].i = l[n].i)
                /\ (l[n].k = "ExecUp" /\ n < Len(l)) =>
                    (l[n].r = "ok" /\ l[n+1].k = "Record" /\ l[n+1].i = l[n].i)
                /\ (l[n].k = "ExecUp" /\ n > 1) => (l[n-1].k = "Record" /\ l[n-1].r = "ok")

\* The same statement for declared sequences whose versions are distinct.
C7_DistinctVersions == DistinctVersions => C7_UpOrdering

\* C8: Down rolls back exactly one migration.  When the current version c is
\* greater than 0 and Down returns success, it ran the reverse script of c and
\* no other script, removed the record of c, and left every other record.
C8_DownRollsBackOne ==
    \A p \in Solo :
        LET c == GetCurrentVersion(store0[p]) IN
        (op[p] = "Down" /\ Returned(p) /\ result[p] = "ok" /\ c > 0) =>
            /\ c \in DeclaredVersions
            /\ Len(Scripts(log[p])) = 1
            /\ Scripts(log[p])[1].k = "ExecDown" /\ Scripts(log[p])[1].v = c
            /\ store = {r \in store0[p] : r.Version # c}
            /\ ~Recorded(c)

\* Down returned success, having removed the top record of several.
C8_Witness ==
    \E p \in Solo :
        /\ op[p] = "Down" /\ Returned(p) /\ result[p] = "ok"
        /\ GetCurrentVersion(store0[p]) > 0
        /\ store # {} /\ store # store0[p]

\* C9: Down on an empty applied state is a no-op.  When the current version
\* storage reports is 0, Down returns success, runs no script and calls
\* RemoveMigration for no version.
C9_DownNoOpAtZero ==
    \A p \in Solo :
        (op[p] = "Down" /\ \E n \in DOMAIN log[p] :
            log[p][n].k = "GetVersion" /\ log[p][n].r = "ok" /\ log[p][n].v = 0) =>
            /\ Returned(p) /\ result[p] = "ok"
            /\ Events(log[p], {"ExecUp", "ExecDown", "Record", "Remove"}) = <<>>
            /\ store = store0[p]

\* Down read current version 0 and returned.
C9_Witness ==
    \E p \in Solo :
        /\ op[p] = "Down" /\ Returned(p) /\ result[p] = "ok"
        /\ Has(log[p], "GetVersion", "ok")
        /\ GetCurrentVersion(store0[p]) = 0
        /\ 0 \in DeclaredVersions

C11_FailedRollbackKeepsRecord ==
    \A p \in Solo :
        op[p] \in {"Down", "DownTo"} =>
            \A n \in DOMAIN log[p] :
                (log[p][n].k = "ExecDown" /\ log[p][n].r = "fault") =>
                    /\ n = Len(log[p])
                    /\ Returned(p) /\ result[p] = "ErrRollback"
                    /\ Recorded(log[p][n].v)
                    /\ GetCurrentVersion(store) = log[p][n].v
                    /\ \A r \in store0[p] : r.Version <= log[p][n].v => r \in store

\* DownTo rolled one version back, then the reverse script of the next failed
\* while a lower version was still applied.
C11_Witness ==
    \E p \in Solo :
        /\ op[p] = "DownTo" /\ Returned(p) /\ result[p] = "ErrRollback"
        /\ Has(log[p], "Remove", "ok")
        /\ Has(log[p], "ExecDown", "fault")
        /\ \E r \in store : r.Version < GetCurrentVersion(store)

\* The highest declared version, and the highest declared version below it
\* (0 when there is none).
HighestDeclared == migrations[Len(migrations)].Version
BelowHighest ==
    LET lower == {v \in DeclaredVersions : v < HighestDeclared} \cup {0}
    IN  CHOOSE v \in lower : \A w \in lower : w <= v

\* o is an Up call that applied all declared migrations and returned success.
AppliedAll(o) ==
    /\ o.op = "Up" /\ o.result = "ok"
    /\ \A i \in DOMAIN migrations :
          \E n \in DOMAIN o.log : o.log[n].k = "Record" /\ o.log[n].r = "ok" /\ o.log[n].i = i

\* Down has returned after such an Up; Up has returned after such an Up and
\* a successful Down.
AfterUp(p) == op[p] = "Down" /\ Returned(p) /\ AppliedAll(prev[p])
AfterUpDown(p) ==
    /\ op[p] = "Up" /\ Returned(p)
    /\ prev[p].op = "Down" /\ prev[p].result = "ok"
    /\ AppliedAll(prev[p].before)

\* C12 as stated, for declared versions that are positive and distinct: after
\* Up applied everything, one Down leaves Version() = max(declared) - 1, and Up
\* again restores Version() = max(declared).
C12_RoundTripMaxMinusOne ==
    (DistinctVersions /\ 0 \notin DeclaredVersions) =>
        \A p \in Solo :
            /\ AfterUp(p) => GetCurrentVersion(store) = HighestDeclared - 1
            /\ AfterUpDown(p) => GetCurrentVersion(store) = HighestDeclared

\* C12, amended: round trip of Down after Up.  After Up applied everything
\* (all declared migrations, from the empty store), one Down succeeds and leaves Version() equal to the
\* highest declared version below max(declared), 0 when there is none; Up
\* again succeeds and restores Version() = max(declared).
C12_RoundTrip ==
    \A p \in Solo :
        /\ AfterUp(p) => (result[p] = "ok" /\ GetCurrentVersion(store) = BelowHighest)
        /\ AfterUpDown(p) => (result[p] = "ok" /\ GetCurrentVersion(store) = HighestDeclared)

\* The cycle ran to its end over positive declared versions with a gap below
\* the highest.
C12_Witness ==
    \E p \in Solo :
        /\ AfterUpDown(p) /\ result[p] = "ok"
        /\ Has(prev[p].log, "Remove", "ok")
        /\ Has(log[p], "Record", "ok")
        /\ 0 \notin DeclaredVersions /\ BelowHighest # HighestDeclared - 1

StoredVersions(st) == {r.Version : r \in st}
EventVersions(l, K) == {l[n].v : n \in {k \in DOMAIN l : l[k].k \in K}}

\* C13: UpTo exactness.  For any target t >= 0 and any applied state A, when
\* UpTo(t) returns success the applied set is A united with every declared
\* version <= t, the forward scripts it ran are those of exactly the declared
\* versions <= t that were not in A (each once), and it neither ran nor
\* recorded a declared version > t.
C13_UpToExact ==
    \A p \in Solo :
        (op[p] = "UpTo" /\ Returned(p) /\ result[p] = "ok" /\ target[p] >= 0) =>
            LET A == StoredVersions(store0[p])
                upto == {v \in DeclaredVersions : v <= target[p]}
                ups == Events(log[p], {"ExecUp"})
            IN  /\ StoredVersions(store) = A \cup upto
                /\ EventVersions(log[p], {"ExecUp"}) = upto \ A
                /\ \A n \in DOMAIN ups, k \in DOMAIN ups : n # k => ups[n].v # ups[k].v
                /\ \A v \in EventVersions(log[p], {"ExecUp", "Record"}) : v <= target[p]
                /\ store0[p] \subseteq store

\* UpTo succeeded with a target that is no declared version, from a non-empty
\* applied state: it applied something and left a higher declared version out.
C13_Witness ==
    \E p \in Solo :
        /\ op[p] = "UpTo" /\ Returned(p) /\ result[p] = "ok"
        /\ target[p] \notin DeclaredVersions
        /\ store0[p] # {}
        /\ Has(log[p], "Record", "ok")
        /\ \E v \in DeclaredVersions : v > target[p] /\ ~Recorded(v)

\* The index the loop of Up / UpTo resumes from: the one after the migration
\* recorded last in this call, the first when none was.
ResumeIndex(l) ==
    LET recs == {n \in DOMAIN l : l[n].k = "Record" /\ l[n].r = "ok"}
    IN  IF recs = {} THEN 1
        ELSE l[CHOOSE n \in recs : \A k \in recs : k <= n].i + 1

\* C14: UpTo beyond the highest declared version behaves like Up.  With a
\* target t >= the highest declared version, UpTo(t) passes the target test,
\* makes the storage calls of Up in the order of Up (Init, GetAppliedMigrations,
\* then script and RecordMigration per migration), and at every turn of its
\* loop takes the migration the loop of Up takes on the same snapshot; it
\* returns success exactly where the loop of Up runs off the end.
C14_UpToBeyondIsUp ==
    \A p \in Solo :
        (op[p] = "UpTo" /\ target[p] >= HighestDeclared) =>
            /\ result[p] # "ErrInvalidVersion"
            /\ Has(log[p], "GetApplied", "ok") =>
                /\ cur[p] = UpScan(AppliedVersions(applied[p]), ResumeIndex(log[p]))
                /\ result[p] = "ok" <=> (Returned(p) /\ cur[p] = 0)
            /\ \A n \in DOMAIN log[p] :
                /\ log[p][n].k = (IF n = 1 THEN "Init"
                                  ELSE IF n = 2 THEN "GetApplied"
                                  ELSE IF n % 2 = 1 THEN "ExecUp" ELSE "Record")
                /\ n < Len(log[p]) => log[p][n].r = "ok"

\* UpTo with a target above every declared version returned success, having
\* skipped an applied migration and applied another.
C14_Witness ==
    \E p \in Solo :
        /\ op[p] = "UpTo" /\ target[p] > HighestDeclared
        /\ Returned(p) /\ result[p] = "ok"
        /\ Has(log[p], "Record", "ok")
        /\ \E v \in DeclaredVersions : v \in StoredVersions(store0[p])

\* C15: a negative target is rejected before touching storage.  UpTo(t) and
\* DownTo(t) with t < 0 return InvalidVersion without any Storage call, Init
\* included, and without running a script; so also when the store is
\* unavailable.
C15_NegativeTargetBeforeStorage ==
    \A p \in Solo :
        (op[p] \in {"UpTo", "DownTo"} /\ target[p] < 0 /\ Returned(p)) =>
            /\ result[p] = "ErrInvalidVersion"
            /\ log[p] = <<>>

\* C16: a negative target causes no mutation.  When Storage.Init succeeds,
\* UpTo(t) and DownTo(t) with t < 0 return the invalid-version error, make no
\* further storage call, add and remove no applied record and run no script.
C16_NegativeTargetNoMutation ==
    \A p \in Solo :
        (/\ op[p] \in {"UpTo", "DownTo"} /\ target[p] < 0
         /\ Has(log[p], "Init", "ok")) =>
            /\ Returned(p) /\ result[p] = "ErrInvalidVersion"
            /\ Len(log[p]) = 1
            /\ store = store0[p]
            /\ effects = StoredVersions(store0[p])

\* DownTo(-1) was rejected with records above the target in the store.
C16_Witness ==
    \E p \in Solo :
        /\ op[p] = "DownTo" /\ target[p] < 0
        /\ Returned(p) /\ result[p] = "ErrInvalidVersion"
        /\ store # {}
        /\ \E r \in store : r.Version \in DeclaredVersions

\* The reverse scripts of a call, in the order they ran.
Downs(l) == Events(l, {"ExecDown"})
Removed(l) == EventVersions(l, {"Remove"})
AllAppliedDeclared(st) == StoredVersions(st) \subseteq DeclaredVersions

\* C17: DownTo exactness.  For any target t >= 0, when every applied version
\* is declared and DownTo(t) returns success, it ran the reverse script of
\* every applied version > t and of no other, one at a time in strictly
\* descending version order (the record of a version removed before the next
\* script), removed exactly those records, and left the applied versions <= t.
C17_DownToExact ==
    \A p \in Solo :
        (/\ op[p] = "DownTo" /\ Returned(p) /\ result[p] = "ok" /\ target[p] >= 0
         /\ AllAppliedDeclared(store0[p])) =>
            LET above == {v \in StoredVersions(store0[p]) : v > target[p]}
                l == Events(log[p], {"ExecDown", "Remove"})
            IN  /\ EventVersions(log[p], {"ExecDown"}) = above
                /\ Removed(log[p]) = above
                /\ \A n \in DOMAIN Downs(log[p]), k \in DOMAIN Downs(log[p]) :
                      n < k => Downs(log[p])[n].v > Downs(log[p])[k].v
                /\ \A n \in DOMAIN l :
                      /\ l[n].r = "ok"
                      /\ l[n].k = (IF n % 2 = 1 THEN "ExecDown" ELSE "Remove")
                      /\ n % 2 = 0 => l[n].v = l[n-1].v
                /\ Len(l) % 2 = 0
                /\ store = {r \in store0[p] : r.Version <= target[p]}

\* DownTo rolled two versions back and stopped at an applied version equal to
\* its target.
C17_Witness ==
    \E p \in Solo :
        /\ op[p] = "DownTo" /\ Returned(p) /\ result[p] = "ok"
        /\ AllAppliedDeclared(store0[p])
        /\ Len(Downs(log[p])) >= 2
        /\ Recorded(target[p])

\* C18: DownTo does not depend on storage ordering.  Whatever order
\* GetAppliedMigrations returns the records in, a successful DownTo(t) (every
\* applied version declared) has rolled back every applied version > t, in
\* descending version order, and left no applied version > t behind.
C18_DownToAnyOrder ==
    \A p \in Solo :
        (/\ op[p] = "DownTo" /\ Returned(p) /\ result[p] = "ok" /\ target[p] >= 0
         /\ AllAppliedDeclared(store0[p])) =>
            /\ EventVersions(log[p], {"ExecDown"}) =
                  {v \in StoredVersions(store0[p]) : v > target[p]}
            /\ \A n \in DOMAIN Downs(log[p]), k \in DOMAIN Downs(log[p]) :
                  n < k => Downs(log[p])[n].v > Downs(log[p])[k].v
            /\ \A r \in store : r.Version <= target[p]

\* The applied versions above the target that have no declared migration.
Undeclared(p) ==
    {v \in StoredVersions(store0[p]) : v > target[p] /\ v \notin DeclaredVersions}
HighestOf(S) == CHOOSE v \in S : \A w \in S : w <= v

\* C19: DownTo aborts on a missing declaration.  When an applied version above
\* the target has no declared migration, let v be the highest such version.
\* DownTo never runs a reverse script for v or a version below it and their
\* records stay; when it reaches v (no call before failed of itself) it
\* returns MigrationNotFound, the applied versions above v being rolled back
\* and removed.
C19_DownToMissingDeclaration ==
    \A p \in Solo :
        (/\ op[p] = "DownTo" /\ target[p] >= 0
         /\ Undeclared(p) # {}) =>
            LET v == HighestOf(Undeclared(p)) IN
            /\ \A r \in store0[p] : r.Version <= v => r \in store
            /\ \A w \in EventVersions(log[p], {"ExecDown", "Remove"}) : w > v
            /\ result[p] # "ok"
            /\ (Returned(p) /\ ~Faulted(log[p])) =>
                /\ result[p] = "ErrMigrationNotFound"
                /\ store = {r \in store0[p] : r.Version <= v}
                /\ EventVersions(log[p], {"ExecDown"}) =
                      {w \in StoredVersions(store0[p]) : w > v}
            /\ result[p] = "ErrMigrationNotFound" => GetCurrentVersion(store) = v

\* DownTo rolled a declared version back, then met an applied version without
\* declared migration, with a lower version applied below it.
C19_Witness ==
    \E p \in Solo :
        /\ op[p] = "DownTo" /\ Returned(p) /\ result[p] = "ErrMigrationNotFound"
        /\ Has(log[p], "Remove", "ok")
        /\ \E r \in store : r.Version < GetCurrentVersion(store)

\* C20: Status rows.  A successful Status returns exactly one row per declared
\* migration, in declared (ascending version) order; a row has Applied = TRUE
\* exactly when an applied record of its version exists, its AppliedAt is the
\* stored timestamp when applied and nil when not, and its Checksum is the
\* declared migration's, never the stored one.  Status changes no record.
C20_StatusRows ==
    \A p \in Solo :
        (op[p] = "Status" /\ Returned(p) /\ result[p] = "ok") =>
            LET rows == value[p] IN
            /\ DOMAIN rows = DOMAIN migrations
            /\ \A i \in DOMAIN rows, j \in DOMAIN rows :
                  i < j => rows[i].Version <= rows[j].Version
            /\ \A i \in DOMAIN rows :
                  /\ rows[i].Version = migrations[i].Version
                  /\ rows[i].Name = migrations[i].Name
                  /\ rows[i].Checksum = migrations[i].Checksum
                  /\ rows[i].Applied <=> Recorded(rows[i].Version)
                  /\ rows[i].Applied =>
                        \E r \in store : /\ r.Version = rows[i].Version
                                         /\ r.AppliedAt = rows[i].AppliedAt
                  /\ ~rows[i].Applied => rows[i].AppliedAt = NilTime
            /\ store = store0[p]
            /\ Events(log[p], {"ExecUp", "ExecDown", "Record", "Remove"}) = <<>>

\* Status returned an applied row whose stored checksum differs from the
\* declared one, and a row that is not applied.
C20_Witness ==
    \E p \in Solo :
        /\ op[p] = "Status" /\ Returned(p) /\ result[p] = "ok"
        /\ \E i \in DOMAIN value[p] : ~value[p][i].Applied
        /\ \E i \in DOMAIN value[p] :
              /\ value[p][i].Applied
              /\ \E r \in store : /\ r.Version = value[p][i].Version
                                  /\ r.Checksum # value[p][i].Checksum

\* C21: checksum drift is a warning, not an error.  When Status has read the
\* applied records it returns success; it sends a warning for a declared
\* migration exactly when a record of its version exists whose stored
\* checksum differs from the declared one, that row is still marked applied,
\* and Status adds and removes no applied record.
C21_ChecksumDriftWarns ==
    \A p \in Solo :
        (op[p] = "Status" /\ Has(log[p], "GetApplied", "ok")) =>
            /\ Returned(p) /\ result[p] = "ok"
            /\ store = store0[p]
            /\ \A i \in DOMAIN migrations :
                LET drift == \E r \in store : /\ r.Version = migrations[i].Version
                                              /\ r.Checksum # migrations[i].Checksum
                    warned == \E n \in DOMAIN log[p] :
                                 log[p][n].k = "Warn" /\ log[p][n].i = i
                IN  /\ warned <=> drift
                    /\ drift => value[p][i].Applied
            /\ \A n \in DOMAIN log[p], k \in DOMAIN log[p] :
                  (n < k /\ log[p][n].k = "Warn" /\ log[p][k].k = "Warn") =>
                      log[p][n].i < log[p][k].i

\* Status warned about a record of an earlier run and did not warn about a
\* record this orchestrator wrote from the declared migration.
C21_Witness ==
    \E p \in Solo :
        /\ op[p] = "Status" /\ Returned(p) /\ result[p] = "ok"
        /\ Has(log[p], "Warn", "ok")
        /\ \E i \in DOMAIN migrations :
              /\ value[p][i].Applied
              /\ \A n \in DOMAIN log[p] : ~(log[p][n].k = "Warn" /\ log[p][n].i = i)

\* C22: Version returns the current version Storage reports: the maximum
\* applied version, 0 when there is no record; an error of Storage (of Init
\* or of GetCurrentVersion) is returned to the caller as it is.  Version
\* changes no record.
C22_VersionIsStorageVersion ==
    \A p \in Solo :
        (op[p] = "Version" /\ Returned(p)) =>
            /\ store = store0[p]
            /\ result[p] = (IF Has(log[p], "Init", "fault") THEN "ErrInit"
                            ELSE IF Has(log[p], "GetVersion", "fault") THEN "ErrGetVersion"
                            ELSE "ok")
            /\ result[p] # "ok" => value[p] = <<>>
            /\ result[p] = "ok" =>
                /\ Len(value[p]) = 1
                /\ \A r \in store : r.Version <= value[p][1]
                /\ store = {} => value[p][1] = 0
                /\ store # {} => \E r \in store : r.Version = value[p][1]
                /\ Len(log[p]) = 2

\* Version returned the highest of several applied versions.
C22_Witness ==
    \E p \in Solo :
        /\ op[p] = "Version" /\ Returned(p) /\ result[p] = "ok"
        /\ value[p][1] > 0
        /\ \E r \in store : r.Version < value[p][1]

\* An Up / UpTo call that aborted because RecordMigration failed.
AbortedOnRecord(o) ==
    /\ o.op \in {"Up", "UpTo"}
    /\ o.log # <<>>
    /\ o.log[Len(o.log)].k = "Record"
    /\ o.log[Len(o.log)].r # "ok"

\* C23: recording failure after successful execution.  If RecordMigration
\* fails for version v after v's forward script succeeded, Up / UpTo returns an
\* error and attempts no later migration; v's forward effects are present
\* while no applied record of v exists, and the next Up (the store being
\* available) runs v's forward script again.
C23_RecordFailureWindow ==
    \A p \in Solo :
        /\ (op[p] \in {"Up", "UpTo"} /\ \E n \in DOMAIN log[p] :
                log[p][n].k = "Record" /\ log[p][n].r # "ok") =>
              /\ AbortedOnRecord([op |-> op[p], log |-> log[p]])
              /\ Returned(p) /\ result[p] = "ErrRecord"
              /\ FailedVersion(log[p]) \in effects
              /\ ~Recorded(FailedVersion(log[p]))
        /\ (/\ op[p] = "Up" /\ AbortedOnRecord(prev[p])
            /\ Returned(p) /\ ~Unavailable(log[p])) =>
              /\ FailedVersion(prev[p].log) \in EventVersions(log[p], {"ExecUp"})
              /\ Events(log[p], {"ExecUp"})[1].v = FailedVersion(prev[p].log)

\* The same statement for declared sequences whose versions are distinct.
C23_DistinctVersions == DistinctVersions => C23_RecordFailureWindow

\* ---------------------------------------------------------------- C24
ParseOk == parsed.state = "done" /\ parsed.err = "nil"

\* C24: for any set of migration files and any listing order, the sequence
\* parseMigrations returns is strictly ascending by version, so no two
\* returned migrations share a version.
C24_StrictlyAscending ==
    ParseOk =>
        \A i \in DOMAIN parsed.migrations, j \in DOMAIN parsed.migrations :
            i < j => parsed.migrations[i].Version < parsed.migrations[j].Version

\* What the sort does give: ascending, equal versions side by side.
C24_Ascending ==
    ParseOk =>
        \A i \in DOMAIN parsed.migrations, j \in DOMAIN parsed.migrations :
            i < j => parsed.migrations[i].Version <= parsed.migrations[j].Version

\* ---------------------------------------------------------------- C25
\* Line i of content c is text of the section opened by marker: it is neither
\* blank nor a marker, and the nearest marker above it is that marker.
InSection(c, i, marker) ==
    /\ c[i] \notin {UpMarker, DownMarker, Blank}
    /\ \E j \in 1..(i - 1) :
          /\ c[j] = marker
          /\ \A k \in (j + 1)..(i - 1) : c[k] \notin {UpMarker, DownMarker}
UpEmpty(c) == ~\E i \in DOMAIN c : InSection(c, i, UpMarker)
DownEmpty(c) == ~\E i \in DOMAIN c : InSection(c, i, DownMarker)

\* The entry is a file the parser opens: its name matches and Atoi takes
\* its prefix.
Readable(e) == ~e.isDir /\ Matches(e) /\ DecimalValue(e.digits) <= MaxInt
Matching(e) == ~e.isDir /\ Matches(e)
Lacking == {k \in DOMAIN dir : Readable(dir[k]) /\ (UpEmpty(dir[k].content) \/ DownEmpty(dir[k].content))}
FirstLacking == CHOOSE k \in Lacking : \A l \in Lacking : k <= l
NonEmptyScripts ==
    \A i \in DOMAIN parsed.migrations :
        /\ \E n \in DOMAIN parsed.migrations[i].UpSQL : parsed.migrations[i].UpSQL[n] # Blank
        /\ \E n \in DOMAIN parsed.migrations[i].DownSQL : parsed.migrations[i].DownSQL[n] # Blank

\* C25 (as the code has it): the first file in listing order that the parser
\* opens and that lacks a section fails the parse, with NoUpStatement when its
\* trimmed Up section is empty and with NoDownStatement when only its trimmed
\* Down section is empty; nothing is returned then, whatever the other files,
\* so every returned Migration has a non-empty forward and reverse script.
C25_MissingSectionRejected ==
    parsed.state = "done" =>
        /\ Lacking # {} =>
              /\ parsed.err = IF UpEmpty(dir[FirstLacking].content)
                              THEN "ErrNoUpStatement" ELSE "ErrNoDownStatement"
              /\ parsed.migrations = <<>>
        /\ Lacking = {} => parsed.err \in {"nil", "ErrNoMigrations"}
        /\ NonEmptyScripts

\* C25 as stated: any matching file with an empty Up section fails the parse
\* with NoUpStatement, any with an empty Down section with NoDownStatement.
C25_AsStated ==
    parsed.state = "done" =>
        /\ \A k \in DOMAIN dir :
              /\ (Matching(dir[k]) /\ UpEmpty(dir[k].content)) => parsed.err = "ErrNoUpStatement"
              /\ (Matching(dir[k]) /\ DownEmpty(dir[k].content)) => parsed.err = "ErrNoDownStatement"
        /\ parsed.err # "nil" => parsed.migrations = <<>>
        /\ NonEmptyScripts

\* A file without a reverse section beside a valid one fails the batch.
C25_Witness ==
    /\ parsed.state = "done"
    /\ parsed.err = "ErrNoDownStatement"
    /\ Len(dir) = 2
    /\ \E k \in DOMAIN dir : ~UpEmpty(dir[k].content) /\ ~DownEmpty(dir[k].content)

\* ---------------------------------------------------------------- C26
Opened == {parsed.read[i] : i \in DOMAIN parsed.read}

\* The result holds exactly the entries of K.
HoldsExactly(K) ==
    /\ Len(parsed.migrations) = Cardinality(K)
    /\ \A k \in K : \E i \in DOMAIN parsed.migrations :
          /\ parsed.migrations[i].Version = DecimalValue(dir[k].digits)
          /\ parsed.migrations[i].Name = dir[k].base

\* C26 (as the code has it): subdirectories, files whose name does not match
\* and files whose numeric prefix Atoi refuses are skipped without being read
\* and without causing an error; the result holds exactly the other files, and
\* the parse fails with NoMigrationsFound exactly when there is none.
C26_StraysSkipped ==
    parsed.state = "done" =>
        /\ \A k \in DOMAIN dir : ~Readable(dir[k]) => k \notin Opened
        /\ parsed.err \notin {"nil", "ErrNoMigrations"} => Lacking # {}
        /\ parsed.err = "nil" => HoldsExactly({k \in DOMAIN dir : Readable(dir[k])})
        /\ parsed.err = "ErrNoMigrations" <=> \A k \in DOMAIN dir : ~Readable(dir[k])

\* C26 as stated: the result holds exactly the matching files, and the parse
\* fails with NoMigrationsFound exactly when no entry matches.
C26_AsStated ==
    parsed.state = "done" =>
        /\ \A k \in DOMAIN dir : ~Matching(dir[k]) => k \notin Opened
        /\ parsed.err = "nil" => HoldsExactly({k \in DOMAIN dir : Matching(dir[k])})
        /\ parsed.err = "ErrNoMigrations" <=> \A k \in DOMAIN dir : ~Matching(dir[k])

\* A stray entry beside a migration file: the parse succeeds.
C26_Witness ==
    /\ ParseOk
    /\ \E k \in DOMAIN dir : ~Matching(dir[k])
    /\ parsed.migrations # <<>>

\* ---------------------------------------------------------------- C27
\* C27: every Migration returned by parseMigrations has a version >= 1.
C27_PositiveVersions ==
    ParseOk => \A i \in DOMAIN parsed.migrations : parsed.migrations[i].Version >= 1

\* ---------------------------------------------------------------- C28
\* C28: the checksum is a function of the raw content alone: two files get
\* the same checksum exactly when their contents are the same, whatever
\* their names, versions and trimmed sections.
C28_ChecksumOfRawContent ==
    (ParseOk /\ Len(dir) = 2 /\ Len(parsed.migrations) = 2) =>
        (parsed.migrations[1].Checksum = parsed.migrations[2].Checksum
            <=> dir[1].content = dir[2].content)

\* Two files of another name and version whose sections are the same after
\* trimming and whose contents differ.
C28_Witness ==
    /\ ParseOk /\ Len(dir) = 2 /\ Len(parsed.migrations) = 2
    /\ dir[1].content # dir[2].content
    /\ parsed.migrations[1].Name # parsed.migrations[2].Name
    /\ parsed.migrations[1].UpSQL = parsed.migrations[2].UpSQL
    /\ parsed.migrations[1].DownSQL = parsed.migrations[2].DownSQL

\* ---------------------------------------------------------------- C29
\* The non-empty statements of a script: split on ';', trimmed.
Statements(sql) ==
    SelectSeq([k \in DOMAIN splitStatements(sql) |-> TrimSpaces(splitStatements(sql)[k])],
              LAMBDA stmt : stmt # <<>>)
IsPrefix(a, b) == Len(a) <= Len(b) /\ a = SubSeq(b, 1, Len(a))

\* C29: the non-empty statements of one script run in order inside a single
\* transaction; if statement i fails, no later statement of the script runs,
\* none of the effects of statements 1..i-1 persist, and the step fails with
\* an error that wraps TransactionFailed.
C29_ScriptAtomicity ==
    /\ tx.begun <= 1
    /\ IsPrefix(tx.ran, Statements(tx.sql))
    /\ tx.pending # <<>> => tx.state = "open"
    /\ tx.state # "committed" => tx.persisted = <<>>
    /\ tx.state = "committed" =>
          /\ tx.failed = 0
          /\ tx.ran = Statements(tx.sql)
          /\ tx.persisted = Statements(tx.sql)
    /\ tx.failed # 0 =>
          /\ tx.failed = Len(tx.ran)
          /\ tx.state = "rolledback"
          /\ tx.persisted = <<>>
          /\ tx.err = "ErrTransactionFailed"

\* The second statement of a script failed after the first had run.
C29_Witness == tx.failed >= 2 /\ tx.state = "rolledback" /\ Len(Statements(tx.sql)) > tx.failed

C30_StatementAborted ==
    ctx.done => /\ tx.state # "committed"
                /\ tx.persisted = <<>>
                /\ Len(tx.ran) <= ctx.at + 1
                /\ Len(tx.ran) > ctx.at => tx.failed = Len(tx.ran)

\* ---------------------------------------------------------------- C31
Missing(c) == c.URI = "" \/ c.Username = "" \/ c.Password = ""
NoSource(c) == c.MigrationsDir = "" /\ c.MigrationsFS = ""
BothSources(c) == c.MigrationsDir # "" /\ c.MigrationsFS # ""
FailedFast == made.err = "ErrInvalidConfig" /\ made.io = <<>> /\ parsed.state = "none"

\* C31: constructing a migrator fails with a configuration error, before any
\* connection or file I/O, when URI, Username or Password is missing, when
\* neither MigrationsDir nor MigrationsFS is supplied, and when both are.
C31_ConfigValidation ==
    (made.pc = "done" /\ (Missing(cfg) \/ NoSource(cfg) \/ BothSources(cfg))) => FailedFast

\* What validateConfig does reject: a missing field, no source at all.
C31_RequiredFields ==
    /\ (made.pc \notin {"New", "NewWithDriver"} /\ (Missing(cfg) \/ NoSource(cfg))) =>
          (made.pc = "done" /\ FailedFast)
    /\ (made.pc = "done" /\ made.source = "MigrationsDir") => cfg.MigrationsFS = ""

\* ---------------------------------------------------------------- C32
Quiescent == \A p \in Procs : pc[p] \in {"idle", "done"}

\* C32: with independent orchestrators interleaving Up and Down on the same
\* store, at a quiescent state an applied record of version v exists only if
\* the forward effects of v are present (the last of v's scripts to commit
\* was not the reverse one).  Stated here for distinct, positive declared
\* versions and calls that never fail.
C32_RecordsHaveEffects ==
    (Quiescent /\ DistinctVersions /\ 0 \notin DeclaredVersions) =>
        \A r \in store : r.Version \in effects

\* One orchestrator alone, no failing call: every record has its effects.
C32_Alone ==
    (DistinctVersions /\ 0 \notin DeclaredVersions /\ \A p \in Procs : p \notin Solo => op[p] = "none")
        => (Quiescent => \A r \in store : r.Version \in effects)

\* ---------------------------------------------------------------- C33
\* The applied set is a prefix of the declared sequence.
NoGaps ==
    \A i \in DOMAIN migrations, j \in DOMAIN migrations :
        (migrations[i].Version < migrations[j].Version
            /\ migrations[j].Version \in StoredVersions(store))
        => migrations[i].Version \in StoredVersions(store)

\* C33: with a single orchestrator, distinct declared versions, an initially
\* empty store that returns the records in ascending order, and arbitrary
\* script or storage failures, after any sequence of Up, UpTo, Down and
\* DownTo calls the applied set is a prefix of the declared sequence.
C33_NoGaps == (DistinctVersions /\ Quiescent) => NoGaps

\* A failed call left a proper, non-empty prefix, and a roll back followed.
C33_Witness ==
    \E p \in Solo :
        /\ DistinctVersions /\ Quiescent
        /\ op[p] \in {"Down", "DownTo"} /\ Returned(p)
        /\ prev[p].op \in {"Up", "UpTo"} /\ prev[p].result # "ok"
        /\ store # {}
        /\ \E i \in DOMAIN migrations : migrations[i].Version \notin StoredVersions(store)

\* ---------------------------------------------------------------- C34
\* C34: every public operation calls Storage.Init before any other Storage
\* call and before any script; if Init fails the operation returns that
\* error, makes no further Storage call and executes no script.
C34_InitFirst ==
    \A p \in Solo :
        op[p] # "none" =>
            /\ log[p] # <<>>
            /\ log[p][1].k = "Init"
            /\ \A n \in DOMAIN log[p] : n > 1 => log[p][n].k # "Init"
            /\ log[p][1].r # "ok" =>
                  /\ Len(log[p]) = 1
                  /\ Returned(p) /\ result[p] = "ErrInit"
                  /\ store = store0[p]
                  /\ effects = {r.Version : r \in store0[p]}

\* An operation other than Up and UpTo returned straight after a failing Init.
C34_Witness ==
    \E p \in Solo :
        /\ op[p] \in {"Down", "DownTo", "Status", "Version"}
        /\ Returned(p)
        /\ log[p][1].r # "ok"

\* ---------------------------------------------------------------- C35
\* Event n of log l comes directly after the successful script of kind k of
\* the same migration.
DirectlyAfter(l, n, k) ==
    /\ n > 1
    /\ l[n - 1].k = k /\ l[n - 1].r = "ok"
    /\ l[n - 1].v = l[n].v /\ l[n - 1].i = l[n].i
CalledInTurn(l) ==
    \A n \in DOMAIN l :
        /\ l[n].k = "Record" => DirectlyAfter(l, n, "ExecUp")
        /\ l[n].k = "Remove" => DirectlyAfter(l, n, "ExecDown")

\* A record written by this call carries the name and checksum of the
\* migration it was written for.
WrittenAsDeclared(p) ==
    \A r \in store \ store0[p] :
        \E n \in DOMAIN log[p] :
            /\ log[p][n].k = "Record" /\ log[p][n].r = "ok" /\ log[p][n].v = r.Version
            /\ r.Name = migrations[log[p][n].i].Name
            /\ r.Checksum = migrations[log[p][n].i].Checksum

\* A record that stays stays as it is.
NeverMutated ==
    \A r \in store : (\E r2 \in store' : r2.Version = r.Version) => r \in store'

\* C35: RecordMigration(v) is called only directly after v's forward script
\* succeeded in the same operation, RemoveMigration(v) only directly after
\* v's reverse script succeeded; the stored name and checksum of a record are
\* those of the declared migration when it was applied and never change while
\* the record exists.
C35_RecordLifecycle ==
    /\ [](\A p \in Solo : CalledInTurn(log[p]) /\ WrittenAsDeclared(p))
    /\ [][NeverMutated]_vars

\* An Up that wrote a record beside a record of an earlier run whose
\* checksum differs from the declared one.
C35_Witness ==
    \E p \in Solo :
        /\ Returned(p) /\ result[p] = "ok"
        /\ store \ store0[p] # {}
        /\ \E r \in store0[p] : r \in store /\ \E i \in DOMAIN migrations :
              migrations[i].Version = r.Version /\ migrations[i].Checksum # r.Checksum

\* ---------------------------------------------------------------- C36
\* The events of the kinds K for version v in log l.
EventsOf(l, K, v) == {n \in DOMAIN l : l[n].k \in K /\ l[n].v = v}

\* C36: within one Up or UpTo call the forward script of a version is
\* executed at most once and RecordMigration is called at most once per
\* version, for every sequence parseMigrations can return.
C36_OncePerVersion ==
    \A p \in Solo :
        op[p] \in {"Up", "UpTo"} =>
            \A v \in Versions :
                /\ Cardinality(EventsOf(log[p], {"ExecUp"}, v)) <= 1
                /\ Cardinality(EventsOf(log[p], {"Record"}, v)) <= 1

\* With distinct declared versions: once per version.
C36_DistinctVersions == DistinctVersions => C36_OncePerVersion

\* ---------------------------------------------------------------- C37
\* C37: Down returns its no-op success (no script executed, nothing removed)
\* only when the store holds no applied record: with a record in the store,
\* Down rolls back the record of the maximum version or fails.
C37_DownNoOpOnlyWhenEmpty ==
    \A p \in Solo :
        (op[p] = "Down" /\ Returned(p) /\ store0[p] # {}) =>
            \/ result[p] # "ok"
            \/ /\ \E n \in EventsOf(log[p], {"ExecDown"}, HighestOf(StoredVersions(store0[p]))) :
                     log[p][n].r = "ok"
               /\ HighestOf(StoredVersions(store0[p])) \notin StoredVersions(store)

\* With no record of version 0 in the store.
C37_PositiveRecords ==
    (\A p \in Solo : 0 \notin StoredVersions(store0[p])) => C37_DownNoOpOnlyWhenEmpty

BeginsWithMarker(l) == HasPrefix(l, UpMarker) \/ HasPrefix(l, DownMarker)
IsMarker(l) == l \in {UpMarker, DownMarker}

\* The lines of c that are no marker and whose nearest marker above is of the
\* kind of marker m, in their order; Marker(l, m) says when line l is a
\* marker of kind m.
SectionLines(c, m, Marker(_, _)) ==
    LET at == SelectSeq([k \in DOMAIN c |-> k],
                        LAMBDA i :
                            /\ ~Marker(c[i], UpMarker) /\ ~Marker(c[i], DownMarker)
                            /\ \E j \in 1..(i - 1) :
                                  /\ Marker(c[j], m)
                                  /\ \A k \in (j + 1)..(i - 1) :
                                        ~Marker(c[k], UpMarker) /\ ~Marker(c[k], DownMarker))
    IN  [n \in DOMAIN at |-> c[at[n]]]
Same(l, m) == l = m

\* The parse of the one file gives the sections up and down.
SplitsInto(up, down) ==
    IF up = <<>> THEN parsed.err = "ErrNoUpStatement"
    ELSE IF down = <<>> THEN parsed.err = "ErrNoDownStatement"
    ELSE /\ parsed.err = "nil"
         /\ parsed.migrations[1].UpSQL = up
         /\ parsed.migrations[1].DownSQL = down

\* C39 (as the code has it): a marker line is placed in neither section, each
\* other line is appended to the section of the most recently seen marker,
\* and every line before the first marker is discarded; a line counts as a
\* marker when it begins with the marker token, whatever follows the token.
C39_SectionSplitting ==
    (parsed.state = "done" /\ Len(dir) = 1) =>
        SplitsInto(SectionLines(dir[1].content, UpMarker, HasPrefix),
                   SectionLines(dir[1].content, DownMarker, HasPrefix))

\* C39 as stated: a line counts as a marker only when it is the marker token
\* on its own line.
C39_AsStated ==
    (parsed.state = "done" /\ Len(dir) = 1) =>
        SplitsInto(SectionLines(dir[1].content, UpMarker, Same),
                   SectionLines(dir[1].content, DownMarker, Same))

\* Text before the first marker, a marker with text after the token, one
\* line of text in each section.
C39_Witness ==
    /\ ParseOk /\ Len(dir) = 1
    /\ ~BeginsWithMarker(dir[1].content[1])
    /\ \E k \in DOMAIN dir[1].content : BeginsWithMarker(dir[1].content[k]) /\ ~IsMarker(dir[1].content[k])
    /\ Len(parsed.migrations[1].UpSQL) + Len(parsed.migrations[1].DownSQL) = 2

\* ---------------------------------------------------------------- C40
\* The events of the kinds K for the declared migration of index i in log l.
EventsAt(l, K, i) == {n \in DOMAIN l : l[n].k \in K /\ l[n].i = i}
EventsIn(l, K) == {n \in DOMAIN l : l[n].k \in K}

BoundedSteps(p) ==
    /\ op[p] \in {"Up", "UpTo"} =>
          /\ \A i \in DOMAIN migrations :
                /\ Cardinality(EventsAt(log[p], {"ExecUp"}, i)) <= 1
                /\ Cardinality(EventsAt(log[p], {"Record"}, i)) <= 1
          /\ EventsIn(log[p], {"ExecDown", "Remove"}) = {}
    /\ op[p] = "DownTo" =>
          /\ \A v \in -1..MaxVersion + 1 :
                /\ Cardinality(EventsOf(log[p], {"ExecDown"}, v)) <= 1
                /\ Cardinality(EventsOf(log[p], {"Remove"}, v)) <= 1
                /\ EventsOf(log[p], {"ExecDown", "Remove"}, v) # {} =>
                      v \in StoredVersions(store0[p])
          /\ EventsIn(log[p], {"ExecUp", "Record"}) = {}
    /\ op[p] = "Down" =>
          /\ Cardinality(EventsIn(log[p], {"ExecDown"})) <= 1
          /\ Cardinality(EventsIn(log[p], {"Remove"})) <= 1
          /\ EventsIn(log[p], {"ExecUp", "Record"}) = {}
    /\ op[p] \in {"Status", "Version"} =>
          EventsIn(log[p], {"ExecUp", "Record", "ExecDown", "Remove"}) = {}

\* C40: provided each Storage call and each script execution returns, every
\* operation finishes after a bounded sequence of steps: Up and UpTo execute
\* at most one forward script and one RecordMigration per declared migration,
\* DownTo at most one reverse script and one RemoveMigration per applied
\* record read at its start, Down at most one of each.
C40_Termination ==
    /\ [](\A p \in Solo : BoundedSteps(p))
    /\ \A p \in Solo : (op[p] # "none") ~> Returned(p)

\* An Up that ran every declared migration, a DownTo that rolled back every
\* record it read.
C40_Witness ==
    \E p \in Solo :
        /\ Returned(p) /\ result[p] = "ok" /\ Len(log[p]) >= 6
        /\ \/ op[p] = "Up" /\ Cardinality(EventsIn(log[p], {"ExecUp"})) = Len(migrations)
           \/ op[p] = "DownTo"
              /\ Cardinality(EventsIn(log[p], {"ExecDown"})) = Cardinality(store0[p])

====
